---- MODULE Spec2Model ----
(***************************************************************************)
(* Docker Hub activity heatmap backend: the sync orchestrator              *)
(* (services.DockerHubService.SyncActivity and its three entry points),    *)
(* the event store upsert (createActivity), the aggregator                 *)
(* (GetActivitySummary / calculateLevel) and the JSON read handler.        *)
(*                                                                         *)
(* Time is counted in whole hours since an epoch; a calendar day is        *)
(* HoursPerDay hours.  A database table is a set of rows (records); every  *)
(* action performs at most one database statement or one registry call,    *)
(* except a gorm transaction, which is one action.                         *)
(***************************************************************************)
EXTENDS Integers, Sequences, FiniteSets, TLC

VARIABLES
    accounts,       \* table docker_accounts: set of DockerAccount rows
    events,         \* table activity_events: set of ActivityEvent rows
    nextAccountID,  \* auto-increment primary key of docker_accounts
    nextEventID,    \* auto-increment primary key of activity_events
    now,            \* wall clock, hours since the epoch
    procs,          \* goroutines executing SyncActivity (0 is the worker's own)
    sweep,          \* syncAllAccounts: position in its loop and its snapshot
    nSyncs,         \* number of SyncActivity calls made so far (capped)
    calls,          \* per event key: number of createActivity calls made
    lastCreated,    \* key and return value of the latest createActivity call
    read,           \* the latest GetActivitySummary call: account, window start, maxCount
    resp,           \* the latest response of GetActivityJSON
    level,          \* calculateLevel: its arguments and its result
    call,           \* the latest ConnectAccount / DisconnectAccount call and its result
    cleaned,        \* the latest cleanupOldData run: its cutoff and RowsAffected
    svg,            \* the latest GetHeatmapSVG request and the options it handed on
    grid            \* the latest rendering of the HeatmapGrid component

vars == <<accounts, events, nextAccountID, nextEventID, now, procs, sweep,
          nSyncs, calls, lastCreated, read, resp, level, call, cleaned, svg, grid>>

dbVars == <<accounts, events, nextAccountID, nextEventID>>
readVars == <<calls, lastCreated, read, resp, level, call, cleaned, svg, grid>>

-----------------------------------------------------------------------------
(* Bounds of the model *)

MaxUsers == 2
MaxAccountID == 2
MaxGoroutines == 2
MaxSyncs == 2
MaxNow == 1
MaxRepos == 1
MaxTags == 1
MaxUpserts == 4
MaxCalls == 1
MaxDays == 2
MaxRows == 2
MaxCount == 12
FloatBits == 8
MaxCleanups == 2
MaxRunRepos == 2

(* Program constants *)

HoursPerDay == 24
SyncDebounceHours == 4
MinutesPerHour == 60
SyncTimeoutMinutes == 5
DaysPerYear == 365
DefaultDays == 365

Users == 1..MaxUsers
Usernames == {"alice", "bob"}
AccountIDs == 1..MaxAccountID
Procs == 0..MaxGoroutines
Goroutines == 1..MaxGoroutines
RepoNames == {"web"}
TagNames == {"latest"}

RECURSIVE Pow2(_)
Pow2(n) == IF n <= 0 THEN 1 ELSE 2 * Pow2(n - 1)

-----------------------------------------------------------------------------
(* Upstream timestamps.  A timestamp string is modelled by the layout      *)
(* class it belongs to and, when it denotes an instant, by that instant    *)
(* (UTC hours) and the zone offset written in it.                          *)

Stamp(f, u, o) == [fmt |-> f, utc |-> u, off |-> o]
EmptyStamp == Stamp("empty", 0, 0)           \* ""
BadStamp == Stamp("bad", 0, 0)               \* matches no layout
ZuluStamp(u) == Stamp("zulu", u, 0)          \* 2026-01-17T08:19:30.340959Z
OffsetStamp(u, o) == Stamp("offset", u, o)   \* 2026-01-17T10:19:30.340959+02:00

Stamps == {EmptyStamp, BadStamp, ZuluStamp(30)}

(* formats of parseDockerHubTime, in the order they are tried *)
formats == <<"2006-01-02T15:04:05.999999Z",
             "2006-01-02T15:04:05.999999-07:00",
             "RFC3339Nano",
             "RFC3339">>

(* time.Parse(format, dateStr) succeeds *)
ParseMatches(format, dateStr) ==
    CASE format = "2006-01-02T15:04:05.999999Z" -> dateStr.fmt = "zulu"
      [] format = "2006-01-02T15:04:05.999999-07:00" -> dateStr.fmt = "offset"
      [] OTHER -> dateStr.fmt \in {"zulu", "offset"}

NoTime == [ok |-> FALSE, utc |-> 0, off |-> 0]

RECURSIVE ParseLoop(_, _)
ParseLoop(fs, dateStr) ==
    IF fs = <<>> THEN NoTime
    ELSE IF ParseMatches(Head(fs), dateStr)
         THEN [ok |-> TRUE, utc |-> dateStr.utc, off |-> dateStr.off]
         ELSE ParseLoop(Tail(fs), dateStr)

parseDockerHubTime(dateStr) == ParseLoop(formats, dateStr)

(* t.Format("2006-01-02") of a UTC instant: its calendar day number *)
FormatDate(t) == t \div HoursPerDay

(* time.Date(y, m, d, 0, 0, 0, 0, time.UTC) of a calendar day *)
Midnight(day) == day * HoursPerDay

(* createActivity line 176: Year/Month/Day are read in the zone of the     *)
(* parsed time, and the date is then labelled UTC                          *)
normalizedDate(eventDate) == Midnight((eventDate.utc + eventDate.off) \div HoursPerDay)

-----------------------------------------------------------------------------
(* Rows *)

NoSync == -1     \* LastSyncAt = nil

DockerAccount(id, user, name, token) ==
    [ID |-> id, UserID |-> user, DockerUsername |-> name,
     EncryptedToken |-> token, IsActive |-> TRUE, AutoRefresh |-> TRUE,
     SyncInProgress |-> FALSE, LastSyncAt |-> NoSync, LastSyncError |-> ""]

NoAccount == [DockerAccount(0, 0, "", "") EXCEPT !.IsActive = FALSE, !.AutoRefresh = FALSE]

ActivityEvent(id, acc, type, date, repo, tag, count) ==
    [ID |-> id, DockerAccountID |-> acc, EventType |-> type, EventDate |-> date,
     Repository |-> repo, Tag |-> tag, Count |-> count]

NoEvent == ActivityEvent(0, 0, "", 0, "", "", 0)

EventTypePush == "push"

(* the row with the least primary key: what gorm's First returns *)
FirstRow(rows) == CHOOSE r \in rows : \A q \in rows : r.ID <= q.ID

(* the rows of a result in primary-key order: what gorm's Find returns *)
RECURSIVE RowsByID(_)
RowsByID(rows) ==
    IF rows = {} THEN <<>>
    ELSE <<FirstRow(rows)>> \o RowsByID(rows \ {FirstRow(rows)})

(* gorm's Save: UPDATE all columns by primary key, INSERT when no row matched *)
Save(table, row) == {r \in table : r.ID # row.ID} \cup {row}

(* utils.Decrypt(account.EncryptedToken, account.TokenIV) returns no error *)
DecryptOK(token) == token = "enc_ok"

-----------------------------------------------------------------------------
(* Event store: createActivity *)

(* the lookup without its account condition *)
FindExistingAnyAccount(evs, accountID, date, repo, tag) ==
    LET found == {e \in evs : /\ e.EventDate = date
                              /\ e.Repository = repo
                              /\ e.Tag = tag}
    IN IF found = {} THEN NoEvent ELSE FirstRow(found)

(* the lookup without its tag condition *)
FindExistingAnyTag(evs, accountID, date, repo, tag) ==
    LET found == {e \in evs : /\ e.DockerAccountID = accountID
                              /\ e.EventDate = date
                              /\ e.Repository = repo}
    IN IF found = {} THEN NoEvent ELSE FirstRow(found)

(* lines 178-180: the lookup of an existing row; the event type is not     *)
(* part of the WHERE clause                                                *)
FindExisting(evs, accountID, date, repo, tag) ==
    LET found == {e \in evs : /\ e.DockerAccountID = accountID
                              /\ e.EventDate = date
                              /\ e.Repository = repo
                              /\ e.Tag = tag}
    IN IF found = {} THEN NoEvent ELSE FirstRow(found)

(* lines 182-196: increment and save the row found, or create a new row *)
WriteActivity(evs, nextID, existing, accountID, eventType, date, repo, tag) ==
    IF existing # NoEvent
    THEN [events |-> Save(evs, [existing EXCEPT !.Count = @ + 1]),
          nextEventID |-> nextID, created |-> FALSE]
    ELSE [events |-> evs \cup {ActivityEvent(nextID, accountID, eventType, date, repo, tag, 1)},
          nextEventID |-> nextID + 1, created |-> TRUE]

(* the whole of createActivity, run without interruption *)
createActivity(evs, nextID, accountID, eventType, eventDate, repo, tag) ==
    LET date == normalizedDate(eventDate)
    IN WriteActivity(evs, nextID, FindExisting(evs, accountID, date, repo, tag),
                     accountID, eventType, date, repo, tag)

-----------------------------------------------------------------------------
(* Aggregator: calculateLevel *)

(* float64(a) / float64(b) for positive operands: the quotient rounded to  *)
(* the nearest number of FloatBits significant bits, ties to even.  A      *)
(* number is held as mant / 2^scale.                                       *)
Float(mant, scale) == [mant |-> mant, scale |-> scale]

RECURSIVE Normalize(_, _, _)
Normalize(a, b, k) ==
    IF a * Pow2(k) >= Pow2(FloatBits - 1) * b THEN k ELSE Normalize(a, b, k + 1)

Quotient(a, b) ==
    LET scale == Normalize(a, b, 0)
        n == a * Pow2(scale)
        q == n \div b
        r == n % b
    IN Float(IF 2 * r > b \/ (2 * r = b /\ q % 2 = 1) THEN q + 1 ELSE q, scale)

(* x > num/den, for a constant num/den that the format holds exactly *)
Greater(x, num, den) == x.mant * den > num * Pow2(x.scale)

(* the thresholds taken inclusively *)
calculateLevelInclusive(count, maxCount) ==
    IF count = 0 \/ maxCount = 0 THEN 0
    ELSE LET ratio == Quotient(count, maxCount)
         IN IF ~Greater(Float(3, 2), ratio.mant, Pow2(ratio.scale)) THEN 4
            ELSE IF ~Greater(Float(1, 1), ratio.mant, Pow2(ratio.scale)) THEN 3
            ELSE IF ~Greater(Float(1, 2), ratio.mant, Pow2(ratio.scale)) THEN 2
            ELSE 1

(* docker_service.go lines 239-254 *)
calculateLevel(count, maxCount) ==
    IF count = 0 \/ maxCount = 0 THEN 0
    ELSE LET ratio == Quotient(count, maxCount)
         IN IF Greater(ratio, 3, 4) THEN 4
            ELSE IF Greater(ratio, 1, 2) THEN 3
            ELSE IF Greater(ratio, 1, 4) THEN 2
            ELSE 1

(* heatmap.go lines 1044-1062: the same function written as a switch *)
calculateLevelSwitch(count, maxCount) ==
    IF count = 0 \/ maxCount = 0 THEN 0
    ELSE LET ratio == Quotient(count, maxCount)
         IN CASE Greater(ratio, 3, 4) -> 4
              [] ~Greater(ratio, 3, 4) /\ Greater(ratio, 1, 2) -> 3
              [] ~Greater(ratio, 1, 2) /\ Greater(ratio, 1, 4) -> 2
              [] ~Greater(ratio, 1, 4) /\ Greater(ratio, 0, 1) -> 1
              [] OTHER -> 0

-----------------------------------------------------------------------------
(* Aggregator: GetActivitySummary, docker_service.go lines 199-237 *)

(* models.ActivitySummary{Date: dateStr}; the per-kind fields are never    *)
(* assigned by GetActivitySummary                                          *)
ActivitySummary(dateStr) ==
    [Date |-> dateStr, TotalCount |-> 0, Level |-> 0,
     Pushes |-> 0, Pulls |-> 0, Builds |-> 0]

(* GetDockerAccountByUsername, lines 264-270 *)
GetDockerAccountByUsername(dockerUsername) ==
    LET rows == {a \in accounts : a.DockerUsername = dockerUsername}
    IN IF rows = {} THEN NoAccount ELSE FirstRow(rows)

(* lines 205-206: days before the clock reading t, cut to midnight UTC *)
StartDate(t, days) == Midnight(FormatDate(t - days * HoursPerDay))

(* the query reading event_date > ? *)
EventsAfter(evs, accountID, startDate) ==
    {e \in evs : e.DockerAccountID = accountID /\ e.EventDate > startDate}

(* the query without its account condition *)
EventsSinceAnyAccount(evs, accountID, startDate) ==
    {e \in evs : e.EventDate >= startDate}

(* line 209: docker_account_id = ? AND event_date >= ? *)
EventsSince(evs, accountID, startDate) ==
    {e \in evs : e.DockerAccountID = accountID /\ e.EventDate >= startDate}

(* lines 211-223: dateMap maps a date string to the day's TotalCount;      *)
(* maxCount follows the running totals                                     *)
RECURSIVE Accumulate(_, _, _)
Accumulate(found, dateMap, maxCount) ==
    IF found = <<>> THEN [dateMap |-> dateMap, maxCount |-> maxCount]
    ELSE LET event == Head(found)
             dateStr == FormatDate(event.EventDate)
             total == (IF dateStr \in DOMAIN dateMap THEN dateMap[dateStr] ELSE 0)
                      + event.Count
         IN Accumulate(Tail(found),
                       [d \in DOMAIN dateMap \cup {dateStr} |->
                           IF d = dateStr THEN total ELSE dateMap[d]],
                       IF total > maxCount THEN total ELSE maxCount)

(* d.Before(t) read as the loop's exit test *)
NotBefore(d, t) == d >= t

(* line 226: d.After(time.Now().UTC()) *)
After(d, t) == d > t

(* lines 225-234: the loop appends one entry for d = startDate,            *)
(* startDate + 1 day, ... as long as d is not after the clock; it runs at  *)
(* most days + 2 times because startDate is at most days + 1 days back;    *)
(* summaries starts empty (line 225) and receives the entries in order     *)
LoopDates(startDate, t, days) ==
    {startDate + k * HoursPerDay : k \in {j \in 0..(days + 1) :
                                            ~After(startDate + j * HoursPerDay, t)}}

FillDays(startDate, t, days, dateMap, maxCount) ==
    LET entry(i) ==
            LET dateStr == FormatDate(startDate + (i - 1) * HoursPerDay)
            IN IF dateStr \in DOMAIN dateMap
               THEN [ActivitySummary(dateStr) EXCEPT
                        !.TotalCount = dateMap[dateStr],
                        !.Level = calculateLevel(dateMap[dateStr], maxCount)]
               ELSE ActivitySummary(dateStr)
    IN <<>> \o [i \in 1..Cardinality(LoopDates(startDate, t, days)) |-> entry(i)]

ErrDockerAccountNotFound == "docker account not found"

(* the whole call: the clock reads t at line 205 and tLoop, not earlier,   *)
(* at the loop's test of line 226                                          *)
GetActivitySummaryAt(dockerUsername, days, t, tLoop) ==
    LET account == GetDockerAccountByUsername(dockerUsername)
        startDate == StartDate(t, days)
        found == RowsByID(EventsSince(events, account.ID, startDate))
        acc == Accumulate(found, <<>>, 0)
    IN IF account = NoAccount
       THEN [err |-> ErrDockerAccountNotFound, account |-> 0, startDate |-> 0,
             maxCount |-> 0, summaries |-> <<>>]
       ELSE [err |-> "", account |-> account.ID, startDate |-> startDate,
             maxCount |-> acc.maxCount,
             summaries |-> FillDays(startDate, tLoop, days, acc.dateMap, acc.maxCount)]

(* the whole call, with the clock read as t throughout *)
GetActivitySummary(dockerUsername, days, t) ==
    GetActivitySummaryAt(dockerUsername, days, t, t)

-----------------------------------------------------------------------------
(* handlers.GetActivityJSON, heatmap.go lines 173-226 *)

(* the days query parameter: absent (<<>>) or the number its text denotes *)
NoQuery == <<>>

(* lines 186-191: the default stands for an absent or out-of-range value *)
ParseDays(d) ==
    IF d # NoQuery /\ d[1] > 0 /\ d[1] <= DefaultDays THEN d[1] ELSE DefaultDays

Totals(activities, pushes, pulls, builds) ==
    [activities |-> activities, pushes |-> pushes, pulls |-> pulls, builds |-> builds]

(* lines 206-212: the sum of one field over the entries at the indices     *)
(* idx; entries whose field is 0 add nothing and are left out of idx       *)
RECURSIVE SumAt(_, _, _)
SumAt(activities, field, idx) ==
    IF idx = {} THEN 0
    ELSE LET i == CHOOSE j \in idx : TRUE
         IN activities[i][field] + SumAt(activities, field, idx \ {i})

SumField(activities, field) ==
    SumAt(activities, field, {i \in DOMAIN activities : activities[i][field] # 0})

SumTotals(activities) ==
    Totals(SumField(activities, "TotalCount"), SumField(activities, "Pushes"),
           SumField(activities, "Pulls"), SumField(activities, "Builds"))

Response(status, username, days, totals, activity) ==
    [status |-> status, username |-> username, days |-> days,
     totals |-> totals, activity |-> activity]

NoResponse == Response(0, "", 0, Totals(0, 0, 0, 0), <<>>)

ReadOf(pc, account, startDate, maxCount) ==
    [pc |-> pc, account |-> account, startDate |-> startDate, maxCount |-> maxCount]

NoRead == ReadOf("idle", 0, 0, 0)

(* lines 193-225: the reply built from the result r of GetActivitySummary *)
Reply(username, days, r) ==
    IF r.err = ErrDockerAccountNotFound
    THEN /\ resp' = Response(404, username, 0, Totals(0, 0, 0, 0), <<>>)
         /\ read' = ReadOf("done", 0, 0, 0)
    ELSE /\ resp' = Response(200, username, days,
                             SumTotals(r.summaries), r.summaries)
         /\ read' = ReadOf("done", r.account, r.startDate, r.maxCount)

GetActivityJSON(username, d) ==
    /\ IF username = ""
       THEN /\ resp' = Response(400, username, 0, Totals(0, 0, 0, 0), <<>>)
            /\ read' = NoRead
       ELSE \E r \in {GetActivitySummary(username, ParseDays(d), now)} :
               Reply(username, ParseDays(d), r)
    /\ UNCHANGED <<dbVars, now, procs, sweep, nSyncs, calls, lastCreated, level, call,
                   cleaned, svg, grid>>

-----------------------------------------------------------------------------
(* Registry responses *)

RECURSIVE SeqsUpTo(_, _)
SeqsUpTo(S, n) ==
    IF n = 0 THEN {<<>>}
    ELSE LET shorter == SeqsUpTo(S, n - 1)
         IN shorter \cup {Append(q, x) : q \in {t \in shorter : Len(t) = n - 1}, x \in S}

DockerHubRepository == [Name : RepoNames, LastUpdated : Stamps]
DockerHubTag == [Name : TagNames, TagLastPushed : Stamps]

RepoListings == SeqsUpTo(DockerHubRepository, MaxRepos)
TagListings == SeqsUpTo(DockerHubTag, MaxTags)

(* an upstream record that denotes an observation: a repository's          *)
(* last-modified or a tag's last-pushed timestamp                          *)
Observation(repo, tag, stamp) == [Repository |-> repo, Tag |-> tag, Stamp |-> stamp]

-----------------------------------------------------------------------------
(* SyncActivity, one goroutine per call *)

NoArgs == [date |-> 0, repo |-> "", tag |-> ""]

(* the context a call is given: its deadline in minutes on the clock, or   *)
(* none                                                                    *)
NoDeadline == -1
Background == [deadline |-> NoDeadline]

(* context.WithTimeout(context.Background(), 5*time.Minute) *)
WithTimeout(minutes) == [deadline |-> now * MinutesPerHour + minutes]

(* ctx.Err() # nil: the deadline has passed; a registry call made under    *)
(* such a context fails                                                    *)
Expired(ctx) == ctx.deadline # NoDeadline /\ now * MinutesPerHour > ctx.deadline

IdleProc ==
    [pc |-> "idle", target |-> 0, account |-> NoAccount,
     repos |-> <<>>, tags |-> <<>>, existing |-> NoEvent, args |-> NoArgs,
     after |-> "", ret |-> "", ctx |-> Background, tagsErr |-> FALSE]

(* the states between the start write (line 123) and the deferred write (line 129) *)
RunningPCs == {"decrypt", "login", "fetch", "repo", "write", "tags", "tag", "defer"}

Running(p) == procs[p].pc \in RunningPCs

(* a call of SyncActivity(ctx, accountID) *)
Called(ctx, accountID) ==
    [IdleProc EXCEPT !.pc = "first", !.target = accountID, !.ctx = ctx]

(* line 118: database.DB.First(&account, accountID) *)
SyncFirst(p) ==
    /\ procs[p].pc = "first"
    /\ LET rows == {a \in accounts : a.ID = procs[p].target}
       IN IF rows = {}
          THEN procs' = [procs EXCEPT ![p] = IdleProc]
          ELSE procs' = [procs EXCEPT ![p].pc = "save", ![p].account = FirstRow(rows)]
    /\ UNCHANGED <<dbVars, now, sweep, nSyncs, readVars>>

(* lines 122-123: account.SyncInProgress = true; database.DB.Save(&account) *)
SyncMarkInProgress(p) ==
    /\ procs[p].pc = "save"
    /\ LET account == [procs[p].account EXCEPT !.SyncInProgress = TRUE]
       IN /\ accounts' = Save(accounts, account)
          /\ procs' = [procs EXCEPT ![p].pc = "decrypt", ![p].account = account]
    /\ UNCHANGED <<events, nextAccountID, nextEventID, now, sweep, nSyncs,
                   readVars>>

(* lines 132-135: utils.Decrypt; an error returns at once *)
SyncDecrypt(p) ==
    /\ procs[p].pc = "decrypt"
    /\ IF DecryptOK(procs[p].account.EncryptedToken)
       THEN procs' = [procs EXCEPT ![p].pc = "login"]
       ELSE procs' = [procs EXCEPT ![p].pc = "defer", ![p].ret = "decrypt"]
    /\ UNCHANGED <<dbVars, now, sweep, nSyncs, readVars>>

(* lines 137-141: s.login; the registry accepts or rejects, or the call    *)
(* fails (network error, context deadline)                                 *)
SyncLoginEarlyReturn(p) ==
    /\ procs[p].pc = "login"
    /\ \E ok \in BOOLEAN :
          IF ok
          THEN /\ ~Expired(procs[p].ctx)
               /\ procs' = [procs EXCEPT ![p].pc = "fetch"]
          ELSE procs' = [procs EXCEPT ![p] = IdleProc]
    /\ UNCHANGED <<dbVars, now, sweep, nSyncs, readVars>>

(* a failed login that leaves no message behind *)
SyncLoginNoMessage(p) ==
    /\ procs[p].pc = "login"
    /\ \E ok \in BOOLEAN :
          IF ok
          THEN /\ ~Expired(procs[p].ctx)
               /\ procs' = [procs EXCEPT ![p].pc = "fetch"]
          ELSE procs' = [procs EXCEPT ![p].pc = "defer", ![p].ret = "auth"]
    /\ UNCHANGED <<dbVars, now, sweep, nSyncs, readVars>>

SyncLogin(p) ==
    /\ procs[p].pc = "login"
    /\ \E ok \in BOOLEAN :
          IF ok
          THEN /\ ~Expired(procs[p].ctx)
               /\ procs' = [procs EXCEPT ![p].pc = "fetch"]
          ELSE procs' = [procs EXCEPT ![p].pc = "defer", ![p].ret = "auth",
                                      ![p].account.LastSyncError = "Authentication failed"]
    /\ UNCHANGED <<dbVars, now, sweep, nSyncs, readVars>>

(* line 171 and the end of the loop: account.LastSyncError = ""; return nil *)
LoopDone(pr) ==
    [pr EXCEPT !.pc = "defer", !.ret = "nil", !.account.LastSyncError = ""]

(* the error of FetchRepositories stored as it came: err.Error() *)
SyncFetchRepositoriesErrText(p, listings) ==
    /\ procs[p].pc = "fetch"
    /\ \/ procs' = [procs EXCEPT ![p].pc = "defer", ![p].ret = "fetch",
                       ![p].account.LastSyncError = "failed to fetch repos: 502 Bad Gateway"]
       \/ /\ ~Expired(procs[p].ctx)
          /\ \E listing \in listings :
                procs' = [procs EXCEPT ![p] =
                             IF listing = <<>> THEN LoopDone(@)
                             ELSE [@ EXCEPT !.pc = "repo", !.repos = listing]]
    /\ UNCHANGED <<dbVars, now, sweep, nSyncs, readVars>>

(* lines 143-150: s.FetchRepositories; on success the loop over repos      *)
(* begins.  listings is what the registry may answer                       *)
SyncFetchRepositoriesFrom(p, listings) ==
    /\ procs[p].pc = "fetch"
    /\ \/ procs' = [procs EXCEPT ![p].pc = "defer", ![p].ret = "fetch",
                       ![p].account.LastSyncError = "Failed to fetch repositories"]
       \/ /\ ~Expired(procs[p].ctx)
          /\ \E listing \in listings :
                procs' = [procs EXCEPT ![p] =
                             IF listing = <<>> THEN LoopDone(@)
                             ELSE [@ EXCEPT !.pc = "repo", !.repos = listing]]
    /\ UNCHANGED <<dbVars, now, sweep, nSyncs, readVars>>

SyncFetchRepositories(p) == SyncFetchRepositoriesFrom(p, RepoListings)

(* the first half of a createActivity call made by the loop: normalise the *)
(* date and look the row up                                                *)
BeginCreate(pr, parsedTime, repo, tag, after) ==
    LET date == normalizedDate(parsedTime)
    IN [pr EXCEPT !.pc = "write", !.after = after,
                  !.args = [date |-> date, repo |-> repo, tag |-> tag],
                  !.existing = FindExisting(events, pr.account.ID, date, repo, tag)]

(* a repository without a usable last_updated recorded at the current time *)
SyncRepoEventNow(p) ==
    /\ procs[p].pc = "repo"
    /\ LET repo == Head(procs[p].repos)
           t == parseDockerHubTime(repo.LastUpdated)
           current == [ok |-> TRUE, utc |-> now, off |-> 0]
       IN IF repo.LastUpdated # EmptyStamp /\ t.ok
          THEN procs' = [procs EXCEPT ![p] = BeginCreate(@, t, repo.Name, "", "tags")]
          ELSE procs' = [procs EXCEPT ![p] = BeginCreate(@, current, repo.Name, "", "tags")]
    /\ UNCHANGED <<dbVars, now, sweep, nSyncs, readVars>>

(* lines 151-157: the repository's own last_updated *)
SyncRepoEvent(p) ==
    /\ procs[p].pc = "repo"
    /\ LET repo == Head(procs[p].repos)
           t == parseDockerHubTime(repo.LastUpdated)
       IN IF repo.LastUpdated # EmptyStamp /\ t.ok
          THEN procs' = [procs EXCEPT ![p] = BeginCreate(@, t, repo.Name, "", "tags")]
          ELSE procs' = [procs EXCEPT ![p].pc = "tags"]
    /\ UNCHANGED <<dbVars, now, sweep, nSyncs, readVars>>

(* lines 182-196 inside SyncActivity: the second half of createActivity *)
SyncCreateWrite(p) ==
    /\ procs[p].pc = "write"
    /\ LET pr == procs[p]
           w == WriteActivity(events, nextEventID, pr.existing, pr.account.ID,
                              EventTypePush, pr.args.date, pr.args.repo, pr.args.tag)
       IN /\ events' = w.events
          /\ nextEventID' = w.nextEventID
          /\ procs' = [procs EXCEPT ![p].pc = pr.after, ![p].after = "",
                                    ![p].existing = NoEvent, ![p].args = NoArgs]
    /\ UNCHANGED <<accounts, nextAccountID, now, sweep, nSyncs, readVars>>

(* a failed tag fetch that ends the run with an error *)
SyncFetchTagsAborts(p) ==
    /\ procs[p].pc = "tags"
    /\ \/ procs' = [procs EXCEPT ![p].pc = "defer", ![p].ret = "tags",
                       ![p].account.LastSyncError = "Failed to fetch tags"]
       \/ /\ ~Expired(procs[p].ctx)
          /\ \E listing \in TagListings :
                procs' = [procs EXCEPT ![p].pc = "tag", ![p].tags = listing]
    /\ UNCHANGED <<dbVars, now, sweep, nSyncs, readVars>>

(* line 159: tags, _ := s.FetchTags(...); an error leaves tags empty, and  *)
(* the error value (tagsErr) is dropped                                    *)
SyncFetchTags(p) ==
    /\ procs[p].pc = "tags"
    /\ \/ procs' = [procs EXCEPT ![p].pc = "tag", ![p].tags = <<>>, ![p].tagsErr = TRUE]
       \/ /\ ~Expired(procs[p].ctx)
          /\ \E listing \in TagListings :
                procs' = [procs EXCEPT ![p].pc = "tag", ![p].tags = listing]
    /\ UNCHANGED <<dbVars, now, sweep, nSyncs, readVars>>

(* lines 160-169: the next tag of the repository, or the next repository *)
SyncTagEvent(p) ==
    /\ procs[p].pc = "tag"
    /\ LET pr == procs[p]
       IN IF pr.tags = <<>>
          THEN procs' = [procs EXCEPT ![p] =
                            IF Tail(pr.repos) = <<>>
                            THEN LoopDone([@ EXCEPT !.repos = <<>>, !.tagsErr = FALSE])
                            ELSE [@ EXCEPT !.pc = "repo", !.repos = Tail(pr.repos),
                                           !.tagsErr = FALSE]]
          ELSE LET tag == Head(pr.tags)
                   t == parseDockerHubTime(tag.TagLastPushed)
                   rest == [pr EXCEPT !.tags = Tail(pr.tags)]
               IN IF tag.TagLastPushed # EmptyStamp /\ t.ok
                  THEN procs' = [procs EXCEPT ![p] =
                                    BeginCreate(rest, t, Head(pr.repos).Name, tag.Name, "tag")]
                  ELSE procs' = [procs EXCEPT ![p] = rest]
    /\ UNCHANGED <<dbVars, now, sweep, nSyncs, readVars>>

(* the status write made after each repository's tag fetch as well as at   *)
(* the return                                                              *)
SyncStatusWriteInLoop(p) ==
    /\ procs[p].pc \in {"defer", "tags"}
    /\ LET account == [procs[p].account EXCEPT !.SyncInProgress = FALSE,
                                               !.LastSyncAt = now]
       IN /\ accounts' = Save(accounts, account)
          /\ procs' = [procs EXCEPT ![p] =
                          IF @.pc = "defer" THEN IdleProc
                          ELSE [@ EXCEPT !.pc = "tag", !.tags = <<>>]]
    /\ UNCHANGED <<events, nextAccountID, nextEventID, now, sweep, nSyncs,
                   readVars>>

(* lines 125-130: the deferred function, then the return *)
SyncDeferred(p) ==
    /\ procs[p].pc = "defer"
    /\ LET account == [procs[p].account EXCEPT !.SyncInProgress = FALSE,
                                               !.LastSyncAt = now]
       IN /\ accounts' = Save(accounts, account)
          /\ procs' = [procs EXCEPT ![p] = IdleProc]
    /\ UNCHANGED <<events, nextAccountID, nextEventID, now, sweep, nSyncs,
                   readVars>>

SyncActivity(p) ==
    \/ SyncFirst(p)
    \/ SyncMarkInProgress(p)
    \/ SyncDecrypt(p)
    \/ SyncLogin(p)
    \/ SyncFetchRepositories(p)
    \/ SyncRepoEvent(p)
    \/ SyncCreateWrite(p)
    \/ SyncFetchTags(p)
    \/ SyncTagEvent(p)
    \/ SyncDeferred(p)

-----------------------------------------------------------------------------
(* Entry points *)

Idle(p) == procs[p].pc = "idle"

(* `go f()`: the new goroutine takes the lowest free slot *)
FreeGoroutine == CHOOSE g \in Goroutines : Idle(g) /\ \A h \in Goroutines : Idle(h) => g <= h

CanSpawn == nSyncs < MaxSyncs /\ \E g \in Goroutines : Idle(g)

(* GetDockerAccount(userID): First over the rows of the user *)
AccountsOfUser(userID) == {a \in accounts : a.UserID = userID}

(* handlers.SyncDockerActivity, docker.go lines 127-154 *)
SyncDockerActivity(user) ==
    /\ LET rows == AccountsOfUser(user)
       IN IF rows = {}
          THEN UNCHANGED <<procs, nSyncs>>               \* 404
          ELSE IF FirstRow(rows).SyncInProgress
          THEN UNCHANGED <<procs, nSyncs>>               \* 409 Conflict
          ELSE /\ CanSpawn                               \* 200, go SyncActivity
               /\ procs' = [procs EXCEPT ![FreeGoroutine] =
                                            Called(Background, FirstRow(rows).ID)]
               /\ nSyncs' = nSyncs + 1
    /\ UNCHANGED <<dbVars, now, sweep, readVars>>

(* ConnectAccount lines 59-99: the transaction.  outcome is what the       *)
(* registry and the vault answer: "ok", or the step that fails             *)
ConnectOutcomes == {"ok", "validateUsername", "login", "encrypt", "create"}

(* the conflict test with user_id = ? in place of user_id != ? *)
ConnectConflictSameUser(userID, dockerUsername) ==
    \E a \in accounts : a.DockerUsername = dockerUsername /\ a.UserID = userID

ConnectConflict(userID, dockerUsername) ==
    \E a \in accounts : a.DockerUsername = dockerUsername /\ a.UserID # userID

(* the four steps run outside a transaction: the cleanup of step 2 stays   *)
(* when a later step fails                                                 *)
ConnectAccountNoTransaction(userID, dockerUsername, outcome) ==
    LET accountIDs == {a.ID : a \in {r \in accounts :
                          r.UserID = userID \/ r.DockerUsername = dockerUsername}}
        account == DockerAccount(nextAccountID, userID, dockerUsername, "enc_ok")
    IN IF ConnectConflict(userID, dockerUsername)
       THEN UNCHANGED <<dbVars, procs, nSyncs>>
       ELSE IF outcome # "ok"
       THEN /\ events' = {e \in events : e.DockerAccountID \notin accountIDs}
            /\ accounts' = {a \in accounts : a.ID \notin accountIDs}
            /\ UNCHANGED <<nextAccountID, nextEventID, procs, nSyncs>>
       ELSE /\ nextAccountID <= MaxAccountID
            /\ CanSpawn
            /\ events' = {e \in events : e.DockerAccountID \notin accountIDs}
            /\ accounts' = {a \in accounts : a.ID \notin accountIDs} \cup {account}
            /\ nextAccountID' = nextAccountID + 1
            /\ UNCHANGED nextEventID
            /\ procs' = [procs EXCEPT ![FreeGoroutine] =
                                Called(WithTimeout(SyncTimeoutMinutes), account.ID)]
            /\ nSyncs' = nSyncs + 1

(* the connect that returns without starting the initial sync *)
ConnectAccountNoSync(userID, dockerUsername, outcome) ==
    LET accountIDs == {a.ID : a \in {r \in accounts :
                          r.UserID = userID \/ r.DockerUsername = dockerUsername}}
        account == DockerAccount(nextAccountID, userID, dockerUsername, "enc_ok")
    IN IF ConnectConflict(userID, dockerUsername) \/ outcome # "ok"
       THEN UNCHANGED <<dbVars, procs, nSyncs>>
       ELSE /\ nextAccountID <= MaxAccountID
            /\ CanSpawn
            /\ events' = {e \in events : e.DockerAccountID \notin accountIDs}
            /\ accounts' = {a \in accounts : a.ID \notin accountIDs} \cup {account}
            /\ nextAccountID' = nextAccountID + 1
            /\ UNCHANGED <<nextEventID, procs, nSyncs>>

ConnectAccount(userID, dockerUsername, outcome) ==
    LET accountIDs == {a.ID : a \in {r \in accounts :
                          r.UserID = userID \/ r.DockerUsername = dockerUsername}}
        account == DockerAccount(nextAccountID, userID, dockerUsername, "enc_ok")
    IN IF ConnectConflict(userID, dockerUsername) \/ outcome # "ok"
       THEN UNCHANGED <<dbVars, procs, nSyncs>>          \* rolled back, error
       ELSE /\ nextAccountID <= MaxAccountID
            /\ CanSpawn
            /\ events' = {e \in events : e.DockerAccountID \notin accountIDs}
            /\ accounts' = {a \in accounts : a.ID \notin accountIDs} \cup {account}
            /\ nextAccountID' = nextAccountID + 1
            /\ UNCHANGED nextEventID
            /\ procs' = [procs EXCEPT ![FreeGoroutine] =
                                Called(WithTimeout(SyncTimeoutMinutes), account.ID)]
            /\ nSyncs' = nSyncs + 1

ConnectDocker(user) ==
    /\ \E dockerUsername \in Usernames, outcome \in ConnectOutcomes :
          ConnectAccount(user, dockerUsername, outcome)
    /\ UNCHANGED <<now, sweep, readVars>>

-----------------------------------------------------------------------------
(* worker.syncAllAccounts, sync.go lines 54-96; its SyncActivity calls run *)
(* on the cron goroutine, slot 0                                           *)

(* of each selected row the loop reads ID, SyncInProgress and LastSyncAt    *)
(* (and the username, for its log lines)                                   *)
Snapshot(rows) ==
    [i \in 1..Len(rows) |-> [ID |-> rows[i].ID, SyncInProgress |-> rows[i].SyncInProgress,
                             LastSyncAt |-> rows[i].LastSyncAt]]

SweepIdle == [pc |-> "idle", list |-> <<>>]

(* lines 57-62: the selection, read once *)
SweepStart ==
    /\ sweep.pc = "idle"
    /\ nSyncs < MaxSyncs
    /\ sweep' = [pc |-> "loop",
                 list |-> Snapshot(RowsByID({a \in accounts : a.IsActive /\ a.AutoRefresh}))]
    /\ UNCHANGED <<dbVars, now, procs, nSyncs, readVars>>

SyncedRecently(account) ==
    account.LastSyncAt # NoSync /\ now - account.LastSyncAt < SyncDebounceHours

(* lines 68-71 and 74-77: the two skips, decided on the snapshot *)
SweepSkip ==
    /\ sweep.pc = "loop"
    /\ sweep.list # <<>>
    /\ Head(sweep.list).SyncInProgress \/ SyncedRecently(Head(sweep.list))
    /\ sweep' = [sweep EXCEPT !.list = Tail(@)]
    /\ UNCHANGED <<dbVars, now, procs, nSyncs, readVars>>

(* lines 81-82: the call of SyncActivity *)
SweepCall ==
    /\ sweep.pc = "loop"
    /\ sweep.list # <<>>
    /\ ~Head(sweep.list).SyncInProgress
    /\ ~SyncedRecently(Head(sweep.list))
    /\ nSyncs < MaxSyncs
    /\ procs' = [procs EXCEPT ![0] =
                    Called(WithTimeout(SyncTimeoutMinutes), Head(sweep.list).ID)]
    /\ nSyncs' = nSyncs + 1
    /\ sweep' = [sweep EXCEPT !.pc = "call"]
    /\ UNCHANGED <<dbVars, now, readVars>>

(* the loop left when a call has returned *)
SweepReturnBreak ==
    /\ sweep.pc = "call"
    /\ Idle(0)
    /\ sweep' = SweepIdle
    /\ UNCHANGED <<dbVars, now, procs, nSyncs, readVars>>

(* lines 83-92: the call has returned; log, sleep, next account *)
SweepReturn ==
    /\ sweep.pc = "call"
    /\ Idle(0)
    /\ sweep' = [pc |-> "loop", list |-> Tail(sweep.list)]
    /\ UNCHANGED <<dbVars, now, procs, nSyncs, readVars>>

(* line 95: the loop is over *)
SweepDone ==
    /\ sweep.pc = "loop"
    /\ sweep.list = <<>>
    /\ sweep' = SweepIdle
    /\ UNCHANGED <<dbVars, now, procs, nSyncs, readVars>>

syncAllAccounts == SweepStart \/ SweepSkip \/ SweepCall \/ SweepReturn \/ SweepDone

(* the clock *)
Tick ==
    /\ now < MaxNow
    /\ now' = now + 1
    /\ UNCHANGED <<dbVars, procs, sweep, nSyncs, readVars>>

-----------------------------------------------------------------------------
(* The service: an account connected earlier, under the current key or     *)
(* under one that has since been replaced                                  *)

(* a call of ConnectAccount or DisconnectAccount: its arguments and the     *)
(* error it returned ("" for nil)                                          *)
(* n counts the calls made so far                                          *)
CallOf(n, op, userID, accountID, dockerUsername, err) ==
    [n |-> n, op |-> op, userID |-> userID, accountID |-> accountID,
     dockerUsername |-> dockerUsername, err |-> err]

NoCall == CallOf(0, "", 0, 0, "", "")

(* a run of cleanupOldData: n counts the runs made so far *)
NoCleanup == [n |-> 0, cutoff |-> 0, RowsAffected |-> 0]

(* no GetHeatmapSVG request made yet *)
NoSvg == [handed |-> FALSE]

(* the component not rendered yet *)
NoGrid == [rendered |-> FALSE]

NoLevel == [count |-> 0, maxCount |-> 0, level |-> 0, done |-> FALSE]
NoCreated == [n |-> 0, key |-> <<>>, created |-> FALSE]

Init ==
    /\ \E token \in {"enc_ok", "enc_bad"} :
          accounts = {DockerAccount(1, 1, "alice", token)}
    /\ events = {}
    /\ nextAccountID = 2
    /\ nextEventID = 1
    /\ now = 0
    /\ procs = [p \in Procs |-> IdleProc]
    /\ sweep = SweepIdle
    /\ nSyncs = 0
    /\ calls = <<>>
    /\ lastCreated = NoCreated
    /\ read = NoRead
    /\ resp = NoResponse
    /\ level = NoLevel
    /\ call = NoCall
    /\ cleaned = NoCleanup
    /\ svg = NoSvg
    /\ grid = NoGrid

Next ==
    \/ \E p \in Procs : SyncActivity(p)
    \/ \E user \in Users : SyncDockerActivity(user)
    \/ \E user \in Users : ConnectDocker(user)
    \/ syncAllAccounts
    \/ Tick

Spec == Init /\ [][Next]_vars

-----------------------------------------------------------------------------
(* worker.SyncSingleAccount, sync.go lines 114-118: SyncActivity called on *)
(* the worker's goroutine; FairSpec is the worker syncing single accounts  *)
(* under a scheduler that lets a started SyncActivity take its next step   *)
(* (registry calls return or fail, database statements return)             *)

SyncSingleAccount(accountID) ==
    /\ Idle(0)
    /\ sweep.pc = "idle"
    /\ nSyncs < MaxSyncs
    /\ procs' = [procs EXCEPT ![0] = Called(WithTimeout(SyncTimeoutMinutes), accountID)]
    /\ nSyncs' = nSyncs + 1
    /\ UNCHANGED <<dbVars, now, sweep, readVars>>

NextWorker ==
    \/ \E accountID \in AccountIDs : SyncSingleAccount(accountID)
    \/ \E p \in Procs : SyncActivity(p)

FairSpec == Init /\ [][NextWorker]_vars /\ \A p \in Procs : WF_vars(SyncActivity(p))

-----------------------------------------------------------------------------
(* Properties of the sync orchestrator *)

(* the persisted sync-in-progress flag of account id *)
InProgress(id) == \E a \in accounts : a.ID = id /\ a.SyncInProgress

RunningOn(id) == {p \in Procs : Running(p) /\ procs[p].target = id}

(* C1: at most one SyncActivity execution per account is between its start *)
(* write and its final status write                                        *)
C1_SingleFlight == \A id \in AccountIDs : Cardinality(RunningOn(id)) <= 1

(* C2: a sync requested for an account that is Running is rejected: no     *)
(* execution performs its start write (or any later write) while the       *)
(* persisted flag of its account is set                                    *)
C2_RejectedWhileRunning ==
    [][\A p \in Procs :
          (procs[p].pc = "save" /\ procs'[p].pc = "decrypt") => ~InProgress(procs[p].target)]_vars

(* C3: once an execution has persisted sync-in-progress = true, the flag   *)
(* is eventually persisted false again, whichever way the execution ends:  *)
(* no account stays Running forever                                        *)
C3_FlagEventuallyCleared ==
    \A id \in AccountIDs : InProgress(id) ~> ~InProgress(id)

(* a sync that failed at login has made its final status write *)
C3_Witness ==
    /\ \A p \in Procs : Idle(p)
    /\ \E a \in accounts : /\ ~a.SyncInProgress
                           /\ a.LastSyncAt # NoSync
                           /\ a.LastSyncError = "Authentication failed"

(* C4: the final status write of an attempt persists an empty              *)
(* last-sync-error exactly when the attempt succeeded, and the time the    *)
(* attempt ended                                                           *)
C4_ErrorDescribesAttempt ==
    [][\A p \in Procs :
          (procs[p].pc = "defer" /\ procs'[p].pc = "idle") =>
              LET id == procs[p].target
                  after == FirstRow({a \in accounts' : a.ID = id})
              IN /\ (after.LastSyncError = "") <=> (procs[p].ret = "nil")
                 /\ after.LastSyncAt = now]_vars

(* the upstream records the registry can hold that map to an event row *)
AllObservations ==
    {Observation(r, t, s) : r \in RepoNames, t \in TagNames \cup {""}, s \in Stamps}

MapsTo(o, e) ==
    /\ o.Stamp # EmptyStamp
    /\ parseDockerHubTime(o.Stamp).ok
    /\ normalizedDate(parseDockerHubTime(o.Stamp)) = e.EventDate
    /\ o.Repository = e.Repository
    /\ o.Tag = e.Tag

(* C6: the count of a row never exceeds the number of distinct upstream    *)
(* observations that map to it (no more can be observed than the registry  *)
(* can hold), however many sync passes have run                            *)
C6_CountBoundedByObservations ==
    \A e \in events : e.Count <= Cardinality({o \in AllObservations : MapsTo(o, e)})

-----------------------------------------------------------------------------
(* SpecUpsert: createActivity called again and again, one call at a time,  *)
(* on a store with two accounts                                            *)

Time(u, o) == [ok |-> TRUE, utc |-> u, off |-> o]

(* parsed timestamps handed to createActivity: two instants of one day, an *)
(* instant of the next day, and an instant written with a zone offset      *)
UpsertTimes == {Time(30, 0), Time(40, 0), Time(58, 0), Time(47, 2)}

(* the event type of every createActivity call in the code (lines 153, 163) *)
CallerEventTypes == {EventTypePush}

EventKey(accountID, date, eventType, repo, tag) == <<accountID, date, eventType, repo, tag>>

KeyOfRow(e) == EventKey(e.DockerAccountID, e.EventDate, e.EventType, e.Repository, e.Tag)

UpsertKeys ==
    {EventKey(id, normalizedDate(t), type, repo, tag) :
        id \in AccountIDs, t \in UpsertTimes, type \in CallerEventTypes,
        repo \in RepoNames, tag \in TagNames \cup {""}}

Upsert(account, eventType, eventDate, repo, tag) ==
    /\ lastCreated.n < MaxUpserts
    /\ LET r == createActivity(events, nextEventID, account.ID, eventType, eventDate, repo, tag)
           key == EventKey(account.ID, normalizedDate(eventDate), eventType, repo, tag)
       IN /\ events' = r.events
          /\ nextEventID' = r.nextEventID
          /\ calls' = [calls EXCEPT ![key] = @ + 1]
          /\ lastCreated' = [n |-> lastCreated.n + 1, key |-> key, created |-> r.created]
    /\ UNCHANGED <<accounts, nextAccountID, now, procs, sweep, nSyncs, read, resp, level,
                   call, cleaned, svg, grid>>

InitUpsert ==
    /\ accounts = {DockerAccount(id, id, IF id = 1 THEN "alice" ELSE "bob", "enc_ok") :
                      id \in 1..2}
    /\ events = {}
    /\ nextAccountID = 3
    /\ nextEventID = 1
    /\ now = 0
    /\ procs = [p \in Procs |-> IdleProc]
    /\ sweep = SweepIdle
    /\ nSyncs = 0
    /\ calls = [k \in UpsertKeys |-> 0]
    /\ lastCreated = NoCreated
    /\ read = NoRead
    /\ resp = NoResponse
    /\ level = NoLevel
    /\ call = NoCall
    /\ cleaned = NoCleanup
    /\ svg = NoSvg
    /\ grid = NoGrid

NextUpsert ==
    \E account \in accounts, eventType \in CallerEventTypes, eventDate \in UpsertTimes,
       repo \in RepoNames, tag \in TagNames \cup {""} :
        Upsert(account, eventType, eventDate, repo, tag)

SpecUpsert == InitUpsert /\ [][NextUpsert]_vars

(* C5: the store holds one row per key that was upserted and none for any  *)
(* other key; the row's count is the number of upserts of its key; the     *)
(* call returned true exactly when it was the first of its key             *)
C5_UpsertOneRowPerKey ==
    /\ \A k \in DOMAIN calls :
          LET rows == {e \in events : KeyOfRow(e) = k}
          IN IF calls[k] = 0 THEN rows = {}
             ELSE Cardinality(rows) = 1 /\ \A e \in rows : e.Count = calls[k]
    /\ \A e \in events : KeyOfRow(e) \in DOMAIN calls
    /\ lastCreated.n > 0 => (lastCreated.created <=> calls[lastCreated.key] = 1)

(* a key upserted twice: one row, count 2, the second call returned false *)
C5_Witness ==
    /\ lastCreated.n = 2
    /\ calls[lastCreated.key] = 2
    /\ ~lastCreated.created
    /\ \E e \in events : KeyOfRow(e) = lastCreated.key /\ e.Count = 2
    /\ Cardinality(events) = 1

-----------------------------------------------------------------------------
(* SpecSummary: GetActivityJSON requests against a store that earlier      *)
(* syncs have filled for two accounts                                      *)

(* the current UTC day: the clock stands at its midnight or in its         *)
(* afternoon                                                               *)
Today == MaxDays + 1
SummaryNows == {Midnight(Today), Midnight(Today) + 13}

(* days of stored events: from before every requested window to the day    *)
(* after today (a date read from a timestamp written in a zone ahead of    *)
(* UTC)                                                                    *)
EventDays == 0..(Today + 1)

EventCounts == {5, 10}

Seed(acc, day, tag, count) == [acc |-> acc, day |-> day, tag |-> tag, count |-> count]

Seeds ==
    {Seed(1, day, tag, count) : day \in EventDays, tag \in TagNames \cup {""},
                                count \in EventCounts}
    \cup {Seed(2, day, "", 5) : day \in EventDays}

(* order of creation of the rows: by day, then account, then tag *)
Rank(s) == 4 * s.day + 2 * (s.acc - 1) + (IF s.tag = "" THEN 0 ELSE 1)

RECURSIVE SubsetsUpTo(_, _)
SubsetsUpTo(S, n) ==
    IF n = 0 THEN {{}}
    ELSE LET smaller == SubsetsUpTo(S, n - 1)
         IN smaller \cup {T \cup {x} : T \in smaller, x \in S}

StoreOf(S) ==
    {ActivityEvent(1 + Cardinality({q \in S : Rank(q) < Rank(s)}), s.acc, EventTypePush,
                   Midnight(s.day), "web", s.tag, s.count) : s \in S}

Stores ==
    {StoreOf(S) : S \in {T \in SubsetsUpTo(Seeds, MaxRows) :
                            \A s, q \in T : Rank(s) = Rank(q) => s = q}}

RequestNames == Usernames \cup {"", "carol"}
DaysQueries == {NoQuery, <<0>>} \cup {<<n>> : n \in 1..MaxDays}

InitSummary ==
    /\ accounts = {DockerAccount(id, id, IF id = 1 THEN "alice" ELSE "bob", "enc_ok") :
                      id \in 1..2}
    /\ events \in Stores
    /\ nextAccountID = 3
    /\ nextEventID = Cardinality(events) + 1
    /\ now \in SummaryNows
    /\ procs = [p \in Procs |-> IdleProc]
    /\ sweep = SweepIdle
    /\ nSyncs = 0
    /\ calls = <<>>
    /\ lastCreated = NoCreated
    /\ read = NoRead
    /\ resp = NoResponse
    /\ level = NoLevel
    /\ call = NoCall
    /\ cleaned = NoCleanup
    /\ svg = NoSvg
    /\ grid = NoGrid

(* one request per behaviour: the handler keeps nothing between requests    *)
(* and nothing else runs here, so a later request would find the same      *)
(* store and clock                                                         *)
NextSummary ==
    /\ resp = NoResponse
    /\ \E username \in RequestNames, d \in DaysQueries : GetActivityJSON(username, d)

SpecSummary == InitSummary /\ [][NextSummary]_vars

(* the window of the series just returned: its first and its last day *)
WindowStart == FormatDate(now) - resp.days
WindowEnd == FormatDate(now)

RECURSIVE SumCounts(_)
SumCounts(rows) ==
    IF rows = {} THEN 0
    ELSE LET e == FirstRow(rows) IN e.Count + SumCounts(rows \ {e})

(* the events the store holds for an account on a day *)
EventsOn(accountID, day) ==
    {e \in events : e.DockerAccountID = accountID /\ FormatDate(e.EventDate) = day}

DayTotal(accountID, day) == SumCounts(EventsOn(accountID, day))

ThreeDayScenario ==
    /\ resp.status = 200
    /\ resp.days = 2
    /\ DayTotal(read.account, WindowStart) = 5
    /\ DayTotal(read.account, WindowStart + 1) = 0
    /\ DayTotal(read.account, WindowStart + 2) = 10
    /\ \A e \in events : e.DockerAccountID = read.account => FormatDate(e.EventDate) <= WindowEnd

Levels(s) == [i \in 1..Len(s) |-> s[i].Level]

C10_EmptyDayIsZero ==
    resp.status = 200 =>
        \A i \in 1..Len(resp.activity) :
            EventsOn(read.account, resp.activity[i].Date) = {} =>
                resp.activity[i].TotalCount = 0 /\ resp.activity[i].Level = 0

(* a series with an active day and a day on which only the other account   *)
(* has an event                                                            *)
C10_Witness ==
    /\ resp.status = 200
    /\ \E i, j \in 1..Len(resp.activity) :
          /\ resp.activity[i].TotalCount > 0
          /\ EventsOn(read.account, resp.activity[j].Date) = {}
          /\ \E e \in events : /\ e.DockerAccountID # read.account
                               /\ FormatDate(e.EventDate) = resp.activity[j].Date
          /\ resp.activity[j].TotalCount = 0
          /\ resp.activity[j].Level = 0

-----------------------------------------------------------------------------
(* SpecLevel: calculateLevel applied to a count and a maximum *)

CalculateLevel ==
    /\ ~level.done
    /\ level' = [level EXCEPT !.level = calculateLevel(level.count, level.maxCount),
                              !.done = TRUE]
    /\ UNCHANGED <<dbVars, now, procs, sweep, nSyncs, calls, lastCreated, read, resp,
                   call, cleaned, svg, grid>>

CalculateLevelSwitch ==
    /\ ~level.done
    /\ level' = [level EXCEPT !.level = calculateLevelSwitch(level.count, level.maxCount),
                              !.done = TRUE]
    /\ UNCHANGED <<dbVars, now, procs, sweep, nSyncs, calls, lastCreated, read, resp,
                   call, cleaned, svg, grid>>

InitLevel ==
    /\ accounts = {DockerAccount(1, 1, "alice", "enc_ok")}
    /\ events = {}
    /\ nextAccountID = 2
    /\ nextEventID = 1
    /\ now = 0
    /\ procs = [p \in Procs |-> IdleProc]
    /\ sweep = SweepIdle
    /\ nSyncs = 0
    /\ calls = <<>>
    /\ lastCreated = NoCreated
    /\ read = NoRead
    /\ resp = NoResponse
    /\ \E count \in 0..MaxCount, maxCount \in 0..MaxCount :
          level = [count |-> count, maxCount |-> maxCount, level |-> 0, done |-> FALSE]
    /\ call = NoCall
    /\ cleaned = NoCleanup
    /\ svg = NoSvg
    /\ grid = NoGrid

NextLevel == CalculateLevel \/ CalculateLevelSwitch

SpecLevel == InitLevel /\ [][NextLevel]_vars

(* the five-bucket table in whole numbers *)
LevelTable(c, m) ==
    IF c = 0 \/ m = 0 THEN 0
    ELSE IF 4 * c > 3 * m THEN 4
    ELSE IF 2 * c > m THEN 3
    ELSE IF 4 * c > m THEN 2
    ELSE 1

(* C8: for a count c and a maximum m >= c the level is the five-bucket     *)
(* table with exclusive thresholds (ratios of exactly 0.75, 0.5 and 0.25   *)
(* give 3, 2 and 1) and lies in 0..4                                       *)
C8_LevelTable ==
    (level.done /\ level.count <= level.maxCount) =>
        /\ level.level = LevelTable(level.count, level.maxCount)
        /\ level.level \in 0..4
        /\ (level.count > 0 /\ 4 * level.count = 3 * level.maxCount) => level.level = 3
        /\ (level.count > 0 /\ 2 * level.count = level.maxCount) => level.level = 2
        /\ (level.count > 0 /\ 4 * level.count = level.maxCount) => level.level = 1

(* a ratio of exactly 0.75 has been given level 3 *)
C8_Witness ==
    /\ level.done
    /\ level.count > 0
    /\ 4 * level.count = 3 * level.maxCount
    /\ level.level = 3

-----------------------------------------------------------------------------
(* Per-kind sums of the series *)

(* the other two kinds of models.EventType *)
EventTypePull == "pull"
EventTypeBuild == "build"

(* the sum of the counts of the account's events of one kind on a day *)
KindTotal(accountID, day, eventType) ==
    SumCounts({e \in EventsOn(accountID, day) : e.EventType = eventType})

(* C11: in every entry of the series pushes, pulls and builds are the sums *)
(* of the counts of that day's events of that kind, they add up to the     *)
(* day's total count, and totals.pushes, totals.pulls and totals.builds    *)
(* are the sums of those fields over the series                            *)
C11_PerKindSums ==
    resp.status = 200 =>
        /\ \A i \in 1..Len(resp.activity) :
              LET a == resp.activity[i]
              IN /\ a.Pushes = KindTotal(read.account, a.Date, EventTypePush)
                 /\ a.Pulls = KindTotal(read.account, a.Date, EventTypePull)
                 /\ a.Builds = KindTotal(read.account, a.Date, EventTypeBuild)
                 /\ a.Pushes + a.Pulls + a.Builds = a.TotalCount
        /\ resp.totals.pushes = SumField(resp.activity, "Pushes")
        /\ resp.totals.pulls = SumField(resp.activity, "Pulls")
        /\ resp.totals.builds = SumField(resp.activity, "Builds")

-----------------------------------------------------------------------------
(* SpecAccounts: ConnectAccount and DisconnectAccount called while manual  *)
(* and initial syncs run; the arguments and the error of each call are     *)
(* kept in call                                                            *)

ErrConflict == "this Docker username is connected to another account"

(* the error ConnectAccount returns (lines 62-64, 76-87, 98, 101-103) *)
ConnectError(userID, dockerUsername, outcome) ==
    IF ConnectConflict(userID, dockerUsername) THEN ErrConflict
    ELSE IF outcome # "ok" THEN outcome
    ELSE ""

(* a call of ConnectAccount with its result kept *)
ConnectCall(userID) ==
    /\ call.n < MaxCalls
    /\ \E dockerUsername \in Usernames, outcome \in ConnectOutcomes :
          /\ ConnectAccount(userID, dockerUsername, outcome)
          /\ call' = CallOf(call.n + 1, "ConnectAccount", userID,
                            IF ConnectError(userID, dockerUsername, outcome) = ""
                            THEN nextAccountID ELSE 0,
                            dockerUsername, ConnectError(userID, dockerUsername, outcome))
    /\ UNCHANGED <<now, sweep, calls, lastCreated, read, resp, level, cleaned, svg, grid>>

(* DisconnectAccount, lines 272-279: the events of accountID are deleted   *)
(* first, then the account row if it is the user's; no row affected by the *)
(* second statement is the not-found error                                 *)
DisconnectAccount(userID, accountID) ==
    LET matched == {a \in accounts : a.ID = accountID /\ a.UserID = userID}
    IN /\ events' = {e \in events : e.DockerAccountID # accountID}
       /\ accounts' = accounts \ matched
       /\ UNCHANGED <<nextAccountID, nextEventID>>
       /\ call' = CallOf(call.n + 1, "DisconnectAccount", userID, accountID, "",
                         IF matched = {} THEN ErrDockerAccountNotFound ELSE "")

(* a call of DisconnectAccount with any pair of arguments *)
DisconnectCall(userID, accountID) ==
    /\ call.n < MaxCalls
    /\ DisconnectAccount(userID, accountID)
    /\ UNCHANGED <<now, procs, sweep, nSyncs, calls, lastCreated, read, resp, level,
                   cleaned, svg, grid>>

(* handlers.DisconnectDocker, docker.go lines 100-124 *)
DisconnectDocker(user) ==
    /\ call.n < MaxCalls
    /\ LET rows == AccountsOfUser(user)
       IN IF rows = {}
          THEN UNCHANGED <<dbVars, call>>                \* 404
          ELSE DisconnectAccount(user, FirstRow(rows).ID)
    /\ UNCHANGED <<now, procs, sweep, nSyncs, calls, lastCreated, read, resp, level,
                   cleaned, svg, grid>>

NextAccounts ==
    \/ \E p \in Procs : SyncActivity(p)
    \/ \E user \in Users : SyncDockerActivity(user)
    \/ \E user \in Users : ConnectCall(user)
    \/ \E user \in Users : DisconnectDocker(user)
    \/ \E user \in Users, accountID \in AccountIDs : DisconnectCall(user, accountID)

SpecAccounts == Init /\ [][NextAccounts]_vars

(* the step is a call of op *)
IsCall(op) == call' # call /\ call'.op = op

(* the username is held by an account of another user *)
BoundToOther(userID, dockerUsername) ==
    \E a \in accounts : a.DockerUsername = dockerUsername /\ a.UserID # userID

(* C12: a ConnectAccount call for a username bound to an account of        *)
(* another user returns the conflict error, creates and deletes no Account *)
(* or ActivityEvent row and starts no initial sync                         *)
C12_ConflictChangesNothing ==
    [][(IsCall("ConnectAccount") /\ BoundToOther(call'.userID, call'.dockerUsername)) =>
          /\ call'.err = ErrConflict
          /\ UNCHANGED <<accounts, events, nextAccountID, nextEventID, procs>>]_vars

(* user 2 has asked for the username of user 1's account and was refused;  *)
(* user 1's account is still there                                         *)
C12_Witness ==
    /\ call.op = "ConnectAccount"
    /\ call.err = ErrConflict
    /\ call.userID = 2
    /\ \E a \in accounts : a.UserID = 1 /\ a.DockerUsername = call.dockerUsername
    /\ \A a \in accounts : a.UserID # 2

-----------------------------------------------------------------------------
(* SpecConnect: ConnectAccount and DisconnectAccount called on a store     *)
(* that holds user 1's account and the events earlier syncs recorded for   *)
(* it; no sync takes a step                                                *)

InitConnect ==
    /\ accounts = {DockerAccount(1, 1, "alice", "enc_ok")}
    /\ events \in {s \in Stores : \A e \in s : e.DockerAccountID = 1}
    /\ nextAccountID = 2
    /\ nextEventID = Cardinality(events) + 1
    /\ now = Midnight(Today)
    /\ procs = [p \in Procs |-> IdleProc]
    /\ sweep = SweepIdle
    /\ nSyncs = 0
    /\ calls = <<>>
    /\ lastCreated = NoCreated
    /\ read = NoRead
    /\ resp = NoResponse
    /\ level = NoLevel
    /\ call = NoCall
    /\ cleaned = NoCleanup
    /\ svg = NoSvg
    /\ grid = NoGrid

NextConnect ==
    \/ \E user \in Users : ConnectCall(user)
    \/ \E user \in Users : DisconnectDocker(user)
    \/ \E user \in Users, accountID \in AccountIDs : DisconnectCall(user, accountID)

SpecConnect == InitConnect /\ [][NextConnect]_vars

-----------------------------------------------------------------------------
(* Properties of the account table *)

(* C13: there is at most one Account row per local user and at most one    *)
(* per external username, whatever the interleaving of connects,           *)
(* disconnects and syncs                                                   *)
C13_OneAccountPerUserAndName ==
    \A a, b \in accounts :
        (a.UserID = b.UserID \/ a.DockerUsername = b.DockerUsername) => a.ID = b.ID

(* C14: a ConnectAccount call that fails after its cleanup step (identity  *)
(* not found, credential rejected, encryption or insert failure) leaves    *)
(* the Account and ActivityEvent tables exactly as they were               *)
C14_FailedConnectRollsBack ==
    [][(IsCall("ConnectAccount")
        /\ call'.err \in {"validateUsername", "login", "encrypt", "create"}) =>
          UNCHANGED <<accounts, events, nextEventID, procs>>]_vars

(* user 1's reconnect was refused at login; the account and its events     *)
(* are still there                                                         *)
C14_Witness ==
    /\ call.op = "ConnectAccount"
    /\ call.err = "login"
    /\ call.userID = 1
    /\ \E a \in accounts : /\ a.UserID = 1
                           /\ \E e \in events : e.DockerAccountID = a.ID

(* C15: after DisconnectAccount has succeeded for an account there is no   *)
(* Account row with its ID and no ActivityEvent row referencing it, also   *)
(* when a sync of the account was in flight (stated for the states in      *)
(* which that call is the latest one)                                      *)
C15_DisconnectedStaysDeleted ==
    (call.op = "DisconnectAccount" /\ call.err = "") =>
        /\ \A a \in accounts : a.ID # call.accountID
        /\ \A e \in events : e.DockerAccountID # call.accountID

(* C16: a DisconnectAccount call whose (userID, accountID) matches no      *)
(* Account row returns the not-found error and leaves every Account and    *)
(* ActivityEvent row unchanged                                             *)
C16_NotFoundChangesNothing ==
    [][(IsCall("DisconnectAccount")
        /\ ~\E a \in accounts : a.ID = call'.accountID /\ a.UserID = call'.userID) =>
          /\ call'.err = ErrDockerAccountNotFound
          /\ UNCHANGED <<accounts, events>>]_vars

-----------------------------------------------------------------------------
(* Properties of a running sync and of the sweep *)

(* C17: when the stored credential cannot be decrypted the sync is not     *)
(* aborted: it goes on to the registry (login, repository listing) rather  *)
(* than to its exit                                                        *)
C17_DecryptFailureProceeds ==
    [][\A p \in Procs :
          (/\ procs[p].pc = "decrypt"
           /\ ~DecryptOK(procs[p].account.EncryptedToken)
           /\ procs'[p].pc # "decrypt") =>
             procs'[p].pc \in {"login", "fetch"}]_vars

(* the step of the sweep that calls SyncActivity for an account *)
SweepStartsSync == sweep.pc = "loop" /\ sweep'.pc = "call"

(* C18: whenever the sweep starts a sync for an account, the account's row *)
(* at that moment is active, auto-refresh, not in progress and not synced  *)
(* within the last 4 hours                                                 *)
C18_SweepStartsOnlyEligible ==
    [][SweepStartsSync =>
          \A a \in accounts :
             a.ID = procs'[0].target =>
                /\ a.IsActive /\ a.AutoRefresh
                /\ ~a.SyncInProgress
                /\ ~SyncedRecently(a)]_vars

(* C19: a manual sync is started without regard to the last sync time, and *)
(* every sync that has been started, a manual one included, runs under a   *)
(* context whose deadline is at most 5 minutes ahead, so that its registry *)
(* calls are cancelled once that time has passed                           *)
C19_EverySyncHasDeadline ==
    \A p \in Procs :
        ~Idle(p) =>
           /\ procs[p].ctx.deadline # NoDeadline
           /\ procs[p].ctx.deadline <= now * MinutesPerHour + SyncTimeoutMinutes

-----------------------------------------------------------------------------
(* worker.cleanupOldData, sync.go lines 98-111, run by cron at midnight of *)
(* the server's zone                                                       *)

(* the calendar: days are counted from 1 January of the year before a leap *)
(* year, and LeapDay is the 29 February of that leap year                  *)
LeapDay == 424

(* t.AddDate(-1, 0, 0): the same date and time of day one year earlier (29 *)
(* February becomes 1 March), which is 366 days back when a 29 February    *)
(* lies between the two dates and 365 days back otherwise                  *)
OneYearBefore(t) ==
    LET day == FormatDate(t)
        length == IF LeapDay < day /\ day <= LeapDay + DaysPerYear
                  THEN DaysPerYear + 1 ELSE DaysPerYear
    IN t - length * HoursPerDay

(* the query reading event_date <= ? *)
NotNewerThan(evs, cutoff) == {e \in evs : e.EventDate <= cutoff}

(* line 103: Where("event_date < ?", cutoff) *)
OlderThan(evs, cutoff) == {e \in evs : e.EventDate < cutoff}

cleanupOldData ==
    /\ cleaned.n < MaxCleanups
    /\ LET cutoff == OneYearBefore(now)
           old == OlderThan(events, cutoff)
       IN /\ events' = events \ old
          /\ cleaned' = [n |-> cleaned.n + 1, cutoff |-> cutoff,
                         RowsAffected |-> Cardinality(old)]
    /\ UNCHANGED <<accounts, nextAccountID, nextEventID, now, procs, sweep, nSyncs,
                   calls, lastCreated, read, resp, level, call, svg, grid>>

(* the days on which the cleanup is observed: around the leap day and one  *)
(* year after it                                                           *)
CleanupDays == {LeapDay, LeapDay + 1, LeapDay + DaysPerYear, LeapDay + DaysPerYear + 1}

(* midnight of the server's zone on the UTC clock: a server on UTC, and    *)
(* one five hours behind                                                   *)
CronOffsets == {0, 5}

(* cron "0 0 * * *": the next run is a day later *)
NextMidnight ==
    /\ FormatDate(now) + 1 \in CleanupDays
    /\ now' = now + HoursPerDay
    /\ UNCHANGED <<dbVars, procs, sweep, nSyncs, readVars>>

(* stored events of both accounts dated around one year before the run,    *)
(* and on the day before it                                                *)
CleanupSeeds(day) ==
    {Seed(acc, d, "", 5) :
        acc \in 1..2,
        d \in ((day - DaysPerYear - 2)..(day - DaysPerYear + 1)) \cup {day - 1}}

CleanupStores(day) == {StoreOf(S) : S \in SubsetsUpTo(CleanupSeeds(day), MaxRows)}

InitCleanup ==
    /\ accounts = {DockerAccount(1, 1, "alice", "enc_ok"), DockerAccount(2, 2, "bob", "enc_ok")}
    /\ \E day \in CleanupDays, offset \in CronOffsets :
          /\ now = Midnight(day) + offset
          /\ events \in CleanupStores(day)
    /\ nextAccountID = 3
    /\ nextEventID = Cardinality(events) + 1
    /\ procs = [p \in Procs |-> IdleProc]
    /\ sweep = SweepIdle
    /\ nSyncs = 0
    /\ calls = <<>>
    /\ lastCreated = NoCreated
    /\ read = NoRead
    /\ resp = NoResponse
    /\ level = NoLevel
    /\ call = NoCall
    /\ cleaned = NoCleanup
    /\ svg = NoSvg
    /\ grid = NoGrid

NextCleanup == cleanupOldData \/ NextMidnight

SpecCleanup == InitCleanup /\ [][NextCleanup]_vars

(* C20: a cleanup run with cutoff = now minus one year deletes exactly the *)
(* ActivityEvent rows dated before the cutoff: rows dated at or after it   *)
(* stay as they were, no Account row changes, and the number of rows       *)
(* removed, which is the RowsAffected it reports, is the number of rows    *)
(* that were dated before the cutoff                                       *)
C20_CleanupRemovesExactlyOld ==
    [][cleaned' # cleaned =>
          LET cutoff == OneYearBefore(now)
              before == {e \in events : e.EventDate < cutoff}
          IN /\ cleaned'.cutoff = cutoff
             /\ events' \subseteq events
             /\ \A e \in events : e.EventDate >= cutoff => e \in events'
             /\ \A e \in before : \A r \in events' : r.ID # e.ID
             /\ accounts' = accounts
             /\ Cardinality(events) - Cardinality(events') = Cardinality(before)
             /\ cleaned'.RowsAffected = Cardinality(before)]_vars

(* a run that removed one row and kept a row dated exactly at the cutoff *)
C20_Witness ==
    /\ cleaned.n > 0
    /\ cleaned.RowsAffected = 1
    /\ \E e \in events : e.EventDate = cleaned.cutoff
    /\ accounts # {}

-----------------------------------------------------------------------------
(* Properties of the read path's input handling *)

(* C21: a read request whose days value is outside 1..365 is rejected with *)
(* a validation error (status 400) before the store is read; it is not     *)
(* served with another value in its place                                  *)
C21_OutOfRangeDaysRejected ==
    [][\A username \in RequestNames \ {""}, d \in DaysQueries \ {NoQuery} :
          (d[1] \notin 1..DefaultDays /\ GetActivityJSON(username, d)) =>
             (resp'.status = 400 /\ read' = NoRead)]_vars

-----------------------------------------------------------------------------
(* Properties of the steps of one sync *)

(* the row of the account a sync is working on, as persisted *)
Persisted(accs, p) == {a \in accs : a.ID = procs[p].account.ID}

(* C22: a sync whose login fails makes no repository or tag fetch and no   *)
(* event write: it records the error and goes straight to the final status *)
(* write, which persists the message, clears the flag and sets the time    *)
C22_LoginFailureAborts ==
    [][\A p \in Procs :
          /\ (procs[p].pc = "login" /\ procs'[p].pc # "login") =>
                \/ procs'[p].pc = "fetch" /\ procs'[p].ret = ""
                \/ /\ procs'[p].pc = "defer"
                   /\ procs'[p].ret = "auth"
                   /\ procs'[p].account.LastSyncError # ""
                   /\ events' = events
          /\ (procs[p].pc = "defer" /\ procs[p].ret = "auth" /\ procs'[p] # procs[p]) =>
                /\ events' = events
                /\ procs'[p] = IdleProc
                /\ \E a \in Persisted(accounts', p) :
                      /\ a.LastSyncError = "Authentication failed"
                      /\ ~a.SyncInProgress
                      /\ a.LastSyncAt = now]_vars

(* a run whose login failed has made its final status write, after an      *)
(* earlier run had recorded events                                         *)
C22_Witness ==
    /\ \A p \in Procs : Idle(p)
    /\ events # {}
    /\ \E a \in accounts : a.LastSyncError = "Authentication failed" /\ ~a.SyncInProgress

-----------------------------------------------------------------------------
(* SpecRun: one sync of a single account by the worker, against a registry *)
(* that lists up to MaxRunRepos repositories, each once                    *)

RunRepoNames == {"web", "api"}

RunRepoListings ==
    {l \in SeqsUpTo([Name : RunRepoNames, LastUpdated : Stamps], MaxRunRepos) :
        \A i, j \in DOMAIN l : l[i].Name = l[j].Name => i = j}

SyncRun(p) ==
    \/ SyncFirst(p)
    \/ SyncMarkInProgress(p)
    \/ SyncDecrypt(p)
    \/ SyncLogin(p)
    \/ SyncFetchRepositoriesFrom(p, RunRepoListings)
    \/ SyncRepoEvent(p)
    \/ SyncCreateWrite(p)
    \/ SyncFetchTags(p)
    \/ SyncTagEvent(p)
    \/ SyncDeferred(p)

(* the one call of SyncSingleAccount *)
StartRun(accountID) ==
    /\ nSyncs = 0
    /\ SyncSingleAccount(accountID)

NextRun ==
    \/ \E accountID \in AccountIDs : StartRun(accountID)
    \/ \E p \in Procs : SyncRun(p)

SpecRun == Init /\ [][NextRun]_vars /\ \A p \in Procs : WF_vars(SyncRun(p))

(* the run has reached its successful end: return nil with the message     *)
(* cleared (line 171)                                                      *)
Succeeded(pr) == pr.pc = "defer" /\ pr.ret = "nil" /\ pr.account.LastSyncError = ""

(* C23: a failed tag fetch does not abort the sync: the loop goes on with  *)
(* the next repository of the fetched list, or, after the last one, ends   *)
(* the run as a success whose final write persists an empty message        *)
C23_TagFailureIsSoft ==
    /\ [][\A p \in Procs :
             /\ (procs[p].pc = "tags" /\ procs'[p].pc # "tags") =>
                   /\ procs'[p].pc = "tag"
                   /\ procs'[p].repos = procs[p].repos
             /\ (procs[p].pc = "tag" /\ procs[p].tagsErr /\ procs'[p] # procs[p]) =>
                   IF Len(procs[p].repos) > 1
                   THEN /\ procs'[p].pc = "repo"
                        /\ procs'[p].repos = Tail(procs[p].repos)
                   ELSE Succeeded(procs'[p])
             /\ (Succeeded(procs[p]) /\ procs'[p] # procs[p]) =>
                   \E a \in Persisted(accounts', p) :
                      a.LastSyncError = "" /\ ~a.SyncInProgress]_vars
    /\ \A p \in Procs : procs[p].tagsErr ~> Succeeded(procs[p])

(* the tag fetch of the first of two repositories has failed, after that   *)
(* repository's own event was recorded                                     *)
C23_Witness ==
    \E p \in Procs :
       /\ procs[p].pc = "tag"
       /\ procs[p].tagsErr
       /\ Len(procs[p].repos) = 2
       /\ \E e \in events : e.Repository = Head(procs[p].repos).Name

(* the final status write of the one run has been made *)
FinalWritten == \E a \in accounts : a.LastSyncAt # NoSync

(* C24: within one execution of SyncActivity the write that clears the     *)
(* flag and sets the last-sync time comes after every event write of that  *)
(* execution: events are written only by the createActivity steps of the   *)
(* running execution, the status write is its last step, and once it is    *)
(* made no event row changes                                               *)
C24_StatusWriteIsLast ==
    [][/\ FinalWritten => events' = events
       /\ events' # events =>
             \E p \in Procs : procs[p].pc = "write" /\ procs'[p].pc \in {"tags", "tag"}
       /\ \A p \in Procs :
             (procs[p].pc = "defer" /\ procs'[p] # procs[p]) =>
                /\ procs'[p] = IdleProc
                /\ \E a \in Persisted(accounts', p) :
                      ~a.SyncInProgress /\ a.LastSyncAt = now]_vars

(* the run is over, its status is written, and it wrote events for two     *)
(* repositories                                                            *)
C24_Witness ==
    /\ \A p \in Procs : Idle(p)
    /\ \E a \in accounts : a.LastSyncAt # NoSync /\ ~a.SyncInProgress
    /\ \E e, f \in events : e.Repository # f.Repository

(* the rows of the key a createActivity call of p is about *)
RowsOfCall(evs, p) ==
    {e \in evs : /\ e.DockerAccountID = procs[p].account.ID
                 /\ e.EventDate = procs[p].args.date
                 /\ e.Repository = procs[p].args.repo
                 /\ e.Tag = procs[p].args.tag}

(* C25: the upserts of concurrent executions leave a consistent store:     *)
(* each createActivity write either creates the one row of its key with    *)
(* count 1 when the key has no row, or raises the count of the key's one   *)
(* row by exactly one, so that a key has one row whose count is the number *)
(* of upsert calls made for it                                             *)
C25_ConcurrentUpsertsConsistent ==
    [][\A p \in Procs :
          (procs[p].pc = "write" /\ procs'[p].pc # "write") =>
             LET before == RowsOfCall(events, p)
                 after == RowsOfCall(events', p)
             IN /\ Cardinality(after) = 1
                /\ \A f \in after :
                      IF before = {} THEN f.Count = 1
                      ELSE \A e \in before : f.Count = e.Count + 1]_vars

-----------------------------------------------------------------------------
(* Properties of the day stored for an event *)

(* timestamps as the registry may send them, with and without an offset    *)
UpsertStamps == {ZuluStamp(30), ZuluStamp(58), OffsetStamp(47, 2)}

(* C26: for every timestamp the parser accepts, offsets included, the day  *)
(* createActivity stores is midnight UTC of the UTC calendar date of the   *)
(* instant                                                                 *)
C26_StoredDayIsUTCDate ==
    [][\A stamp \in UpsertStamps, account \in accounts,
          repo \in RepoNames, tag \in TagNames \cup {""} :
          LET t == parseDockerHubTime(stamp)
          IN (t.ok /\ Upsert(account, EventTypePush, t, repo, tag)) =>
                lastCreated'.key[2] = Midnight(FormatDate(t.utc))]_vars

(* the timestamp is the empty string or matches none of the formats *)
Unusable(stamp) == stamp.fmt \in {"empty", "bad"}

(* the days of the timestamps the registry can send that the parser accepts *)
UsableDays == {normalizedDate(parseDockerHubTime(s)) : s \in {x \in Stamps : ~Unusable(x)}}

(* C27: a repository whose last_updated, or a tag whose tag_last_pushed,   *)
(* is empty or unparseable causes no event write: the step that meets it   *)
(* goes on to the repository's tag fetch, or to the next tag, with the     *)
(* events untouched; no row is ever dated otherwise than by a parsed       *)
(* timestamp; and the run still reaches its successful end                 *)
C27_UnusableTimestampSkipped ==
    /\ [][\A p \in Procs :
             /\ (/\ procs[p].pc = "repo"
                 /\ Unusable(Head(procs[p].repos).LastUpdated)
                 /\ procs'[p] # procs[p]) =>
                   /\ procs'[p].pc = "tags"
                   /\ procs'[p].repos = procs[p].repos
                   /\ events' = events
             /\ (/\ procs[p].pc = "tag"
                 /\ procs[p].tags # <<>>
                 /\ Unusable(Head(procs[p].tags).TagLastPushed)
                 /\ procs'[p] # procs[p]) =>
                   /\ procs'[p].pc = "tag"
                   /\ procs'[p].tags = Tail(procs[p].tags)
                   /\ procs'[p].repos = procs[p].repos
                   /\ events' = events
             /\ \A e \in events' : e.EventDate \in UsableDays]_vars
    /\ \A p \in Procs : (procs[p].pc = "repo") ~> Succeeded(procs[p])

(* the second repository of the listing has an unusable timestamp: it was  *)
(* skipped without a row, after the first one's event was recorded, and    *)
(* its tags are about to be fetched                                        *)
C27_Witness ==
    \E p \in Procs :
       /\ procs[p].pc = "tags"
       /\ Len(procs[p].repos) = 1
       /\ Unusable(Head(procs[p].repos).LastUpdated)
       /\ \A e \in events : e.Repository # Head(procs[p].repos).Name
       /\ events # {}

-----------------------------------------------------------------------------
(* Properties of the scale of the levels *)

(* the largest per-day total of the account over the days of the window,   *)
(* 0 when the window has no events                                         *)
WindowMax(accountID) ==
    LET totals == {DayTotal(accountID, day) : day \in WindowStart..WindowEnd}
    IN CHOOSE m \in totals \cup {0} : \A t \in totals \cup {0} : t <= m

(* C28: the maximum that scales the levels is the largest per-day total    *)
(* over the days of the emitted window, 0 when the window has no events;   *)
(* events dated outside the window have no influence on any level          *)
C28_MaxIsOverWindow ==
    resp.status = 200 =>
        /\ read.maxCount = WindowMax(read.account)
        /\ \A i \in 1..Len(resp.activity) :
              resp.activity[i].Level =
                 calculateLevel(resp.activity[i].TotalCount, WindowMax(read.account))

-----------------------------------------------------------------------------
(* SpecRead: one request of the read path on a store with two accounts     *)

(* GetDockerAccount(userID), docker_service.go lines 256-262 *)
GetDockerAccount(userID) ==
    IF AccountsOfUser(userID) = {} THEN NoAccount ELSE FirstRow(AccountsOfUser(userID))

(* users that make requests: the known ones and one without an account *)
ReadUsers == Users \cup {MaxUsers + 1}

(* handlers.GetDockerAccount, docker.go lines 70-97 *)
ReadAccount(userID) ==
    /\ read' = ReadOf("account", GetDockerAccount(userID).ID, 0, 0)
    /\ UNCHANGED <<dbVars, now, procs, sweep, nSyncs, calls, lastCreated, resp, level,
                   call, cleaned, svg, grid>>

(* a lookup by username that creates the row it does not find *)
ReadAccountByUsernameOrCreate(dockerUsername) ==
    /\ read' = ReadOf("username", GetDockerAccountByUsername(dockerUsername).ID, 0, 0)
    /\ IF GetDockerAccountByUsername(dockerUsername) = NoAccount
       THEN /\ accounts' = accounts \cup
                             {DockerAccount(nextAccountID, 0, dockerUsername, "")}
            /\ nextAccountID' = nextAccountID + 1
       ELSE UNCHANGED <<accounts, nextAccountID>>
    /\ UNCHANGED <<events, nextEventID, now, procs, sweep, nSyncs, calls, lastCreated,
                   resp, level, call, cleaned, svg, grid>>

(* the lookup GetProfilePage makes, heatmap.go line 238 *)
ReadAccountByUsername(dockerUsername) ==
    /\ read' = ReadOf("username", GetDockerAccountByUsername(dockerUsername).ID, 0, 0)
    /\ UNCHANGED <<dbVars, now, procs, sweep, nSyncs, calls, lastCreated, resp, level,
                   call, cleaned, svg, grid>>

NextRead ==
    /\ resp = NoResponse
    /\ read = NoRead
    /\ \/ \E username \in RequestNames, d \in DaysQueries : GetActivityJSON(username, d)
       \/ \E userID \in ReadUsers : ReadAccount(userID)
       \/ \E username \in RequestNames : ReadAccountByUsername(username)

SpecRead == InitSummary /\ [][NextRead]_vars

(* C29: GetActivitySummary, GetDockerAccount and                            *)
(* GetDockerAccountByUsername leave every Account row and every            *)
(* ActivityEvent row as it was, for unknown users and usernames too        *)
C29_ReadsChangeNothing ==
    [][(read' # read \/ resp' # resp) =>
          UNCHANGED <<accounts, events, nextAccountID, nextEventID>>]_vars

(* a lookup of a username that no account has, made on a store with events *)
C29_Witness ==
    /\ read.pc = "username"
    /\ read.account = 0
    /\ events # {}
    /\ accounts # {}

-----------------------------------------------------------------------------
(* SpecFirstSync: one call of ConnectAccount and the sync it starts, under *)
(* a scheduler that lets a started goroutine take its next step            *)

FirstConnect(user) ==
    /\ call = NoCall
    /\ ConnectCall(user)

NextFirstSync ==
    \/ \E user \in Users : FirstConnect(user)
    \/ \E p \in Procs : SyncActivity(p)

SpecFirstSync ==
    Init /\ [][NextFirstSync]_vars /\ \A p \in Procs : WF_vars(SyncActivity(p))

(* C30: a successful ConnectAccount starts exactly one SyncActivity, for   *)
(* the account it created and committed, on a goroutine of its own, and    *)
(* returns while that call is still pending; the call then begins; a       *)
(* failed ConnectAccount starts none                                       *)
C30_ConnectStartsOneSync ==
    /\ [][IsCall("ConnectAccount") =>
             IF call'.err = ""
             THEN /\ \E a \in accounts' :
                        a.ID = call'.accountID /\ a.UserID = call'.userID
                  /\ \E g \in Goroutines :
                        /\ Idle(g)
                        /\ procs'[g] = Called(WithTimeout(SyncTimeoutMinutes),
                                              call'.accountID)
                        /\ \A h \in Procs \ {g} : procs'[h] = procs[h]
             ELSE procs' = procs]_vars
    /\ \A p \in Procs : (procs[p].pc = "first") ~> (procs[p].pc # "first")

(* ConnectAccount has returned and the sync it started is running on the   *)
(* account it created                                                      *)
C30_Witness ==
    /\ call.op = "ConnectAccount"
    /\ call.err = ""
    /\ \E p \in Goroutines :
          /\ Running(p)
          /\ procs[p].target = call.accountID
          /\ procs[p].account.UserID = call.userID

-----------------------------------------------------------------------------
(* SpecSweep: the scheduled sweep over two accounts, each never synced,    *)
(* synced long ago or synced recently, with a token that decrypts or not,  *)
(* under a scheduler that lets the cron goroutine take its next step       *)

SweepNow == SyncDebounceHours + 1

SweepAccounts(id, name) ==
    {[DockerAccount(id, id, name, token) EXCEPT !.LastSyncAt = last] :
        token \in {"enc_ok", "enc_bad"}, last \in {NoSync, 0, SweepNow - 1}}

InitSweep ==
    /\ \E a \in SweepAccounts(1, "alice"), b \in SweepAccounts(2, "bob") :
          accounts = {a, b}
    /\ events = {}
    /\ nextAccountID = 3
    /\ nextEventID = 1
    /\ now = SweepNow
    /\ procs = [p \in Procs |-> IdleProc]
    /\ sweep = SweepIdle
    /\ nSyncs = 0
    /\ calls = <<>>
    /\ lastCreated = NoCreated
    /\ read = NoRead
    /\ resp = NoResponse
    /\ level = NoLevel
    /\ call = NoCall
    /\ cleaned = NoCleanup
    /\ svg = NoSvg
    /\ grid = NoGrid

NextSweep ==
    \/ syncAllAccounts
    \/ \E p \in Procs : SyncActivity(p)

SpecSweep ==
    InitSweep /\ [][NextSweep]_vars
    /\ WF_vars(syncAllAccounts) /\ \A p \in Procs : WF_vars(SyncActivity(p))

(* the account passes the two skip checks of the loop *)
PassesChecks(account) == ~account.SyncInProgress /\ ~SyncedRecently(account)

(* C31: a sync that returns an error does not end the sweep: the loop      *)
(* takes the accounts of its selection one by one from the front, attempts *)
(* one sync for each account that passes the skip checks and none for the  *)
(* others, goes on to the next account when the call has returned,         *)
(* whatever it returned, and the sweep terminates                          *)
C31_SweepVisitsEveryAccount ==
    /\ [][/\ (sweep.pc = "loop" /\ sweep.list # <<>> /\ sweep' # sweep) =>
                IF PassesChecks(Head(sweep.list))
                THEN /\ sweep' = [pc |-> "call", list |-> sweep.list]
                     /\ procs'[0].pc = "first"
                     /\ procs'[0].target = Head(sweep.list).ID
                ELSE /\ sweep' = [pc |-> "loop", list |-> Tail(sweep.list)]
                     /\ procs' = procs
          /\ (sweep.pc = "call" /\ sweep' # sweep) =>
                sweep' = [pc |-> "loop", list |-> Tail(sweep.list)]
          /\ (Idle(0) /\ ~Idle(0)') => (sweep.pc = "loop" /\ sweep'.pc = "call")]_vars
    /\ (sweep.pc # "idle") ~> (sweep.pc = "idle")

(* the sync of the second account is running after the sync of the first   *)
(* one failed at the login                                                 *)
C31_Witness ==
    /\ sweep.pc = "call"
    /\ Len(sweep.list) = 1
    /\ Running(0)
    /\ procs[0].target = 2
    /\ \E a \in accounts : a.ID = 1 /\ a.LastSyncError = "Authentication failed"

-----------------------------------------------------------------------------
(* SpecTwoAccounts: two users with one account each, neither synced yet,   *)
(* start the first manual sync of their accounts; the two syncs run on     *)
(* separate goroutines in any interleaving                                 *)

InitTwoAccounts ==
    /\ \E t1, t2 \in {"enc_ok", "enc_bad"} :
          accounts = {DockerAccount(1, 1, "alice", t1), DockerAccount(2, 2, "bob", t2)}
    /\ events = {}
    /\ nextAccountID = 3
    /\ nextEventID = 1
    /\ now = 0
    /\ procs = [p \in Procs |-> IdleProc]
    /\ sweep = SweepIdle
    /\ nSyncs = 0
    /\ calls = <<>>
    /\ lastCreated = NoCreated
    /\ read = NoRead
    /\ resp = NoResponse
    /\ level = NoLevel
    /\ call = NoCall
    /\ cleaned = NoCleanup
    /\ svg = NoSvg
    /\ grid = NoGrid

FirstManualSync(user) ==
    /\ \A a \in AccountsOfUser(user) :
          /\ a.LastSyncAt = NoSync
          /\ \A p \in Procs : procs[p].target # a.ID
    /\ SyncDockerActivity(user)

(* the registry lists repositories that carry a last_updated date *)
DatedRepoListings ==
    {l \in RepoListings : \A i \in DOMAIN l : l[i].LastUpdated = ZuluStamp(30)}

SyncDated(p) ==
    \/ SyncFirst(p)
    \/ SyncMarkInProgress(p)
    \/ SyncDecrypt(p)
    \/ SyncLogin(p)
    \/ SyncFetchRepositoriesFrom(p, DatedRepoListings)
    \/ SyncRepoEvent(p)
    \/ SyncCreateWrite(p)
    \/ SyncFetchTags(p)
    \/ SyncTagEvent(p)
    \/ SyncDeferred(p)

NextTwoAccounts ==
    \/ \E user \in Users : FirstManualSync(user)
    \/ \E p \in Procs : SyncDated(p)

SpecTwoAccounts == InitTwoAccounts /\ [][NextTwoAccounts]_vars

(* C32: a step of SyncActivity for one account leaves the Account rows and *)
(* the ActivityEvent rows of every other account as they were              *)
C32_SyncTouchesOwnRowsOnly ==
    [][\A p \in Procs : SyncDated(p) =>
          /\ {a \in accounts' : a.ID # procs[p].target}
                = {a \in accounts : a.ID # procs[p].target}
          /\ {e \in events' : e.DockerAccountID # procs[p].target}
                = {e \in events : e.DockerAccountID # procs[p].target}]_vars

(* a sync of one account has written a row for a repository and day for    *)
(* which the other account, whose sync is still running, has a row too     *)
C32_Witness ==
    /\ \E p, q \in Procs : /\ procs[p].pc \in RunningPCs
                           /\ procs[q].pc \in RunningPCs
                           /\ procs[p].target # procs[q].target
    /\ \E e, f \in events : /\ e.DockerAccountID # f.DockerAccountID
                            /\ e.EventDate = f.EventDate
                            /\ e.Repository = f.Repository
                            /\ e.Tag = f.Tag

-----------------------------------------------------------------------------
(* the messages SyncActivity assigns to account.LastSyncError              *)
(* (docker_service.go lines 139, 145, 171)                                 *)
SyncErrorMessages == {"", "Authentication failed", "Failed to fetch repositories"}

(* C33: the last-sync-error stored in an Account row is always the empty   *)
(* string, "Authentication failed" or "Failed to fetch repositories"       *)
C33_StoredErrorIsFixedMessage ==
    \A a \in accounts : a.LastSyncError \in SyncErrorMessages

(* a sync whose repository request failed has written its status           *)
C33_Witness ==
    /\ Idle(0)
    /\ \E a \in accounts : /\ a.LastSyncError = "Failed to fetch repositories"
                           /\ a.LastSyncAt # NoSync
                           /\ ~a.SyncInProgress

-----------------------------------------------------------------------------
(* GetHeatmapSVG (handlers/heatmap.go lines 38-117): the options parsed    *)
(* from the query string and handed to GenerateSVGWithOptions              *)

DefaultCellSize == 11
DefaultCellRadius == 2
CellSizeLow == 5
CellSizeHigh == 20
RadiusHigh == 10
PaletteSize == 5

(* the text of a numeric query parameter: "" (absent), the decimal text of *)
(* an int, or a text strconv.Atoi rejects (letters, a number out of range) *)
EmptyText == [kind |-> "empty", n |-> 0]
Digits(n) == [kind |-> "digits", n |-> n]
Letters == [kind |-> "letters", n |-> 0]
OutOfRange == [kind |-> "range", n |-> 0]

(* strconv.Atoi: the number and whether err is nil *)
Atoi(text) ==
    IF text.kind = "digits" THEN [n |-> text.n, ok |-> TRUE] ELSE [n |-> 0, ok |-> FALSE]

(* a colour text is a sequence of characters; "" is the empty sequence *)
RECURSIVE TrimLeft(_)
TrimLeft(s) == IF s # <<>> /\ Head(s) = " " THEN TrimLeft(Tail(s)) ELSE s

RECURSIVE TrimRight(_)
TrimRight(s) ==
    IF s # <<>> /\ s[Len(s)] = " " THEN TrimRight(SubSeq(s, 1, Len(s) - 1)) ELSE s

TrimSpace(s) == TrimRight(TrimLeft(s))

(* lines 119-129 *)
parseHexColor(color) ==
    LET trimmed == TrimSpace(color)
    IN IF trimmed = <<>> THEN <<>>
       ELSE IF Head(trimmed) # "#" THEN <<"#">> \o trimmed
       ELSE trimmed

(* c.Query(key) == "true" || c.Query(key) == "1" *)
Flag(text) == text = "true" \/ text = "1"

(* the palette is taken when at least one colour was supplied *)
PaletteTakenWhenAny(customColors) == Len(customColors) >= 1

(* line 96: len(customColors) == 5 *)
PaletteTaken(customColors) == Len(customColors) = PaletteSize

(* lines 88-95: the parsed non-empty colours, in the order color0..color4 *)
RECURSIVE CollectColors(_, _)
CollectColors(colors, i) ==
    IF i > PaletteSize THEN <<>>
    ELSE IF colors[i] # <<>> THEN <<parseHexColor(colors[i])>> \o CollectColors(colors, i + 1)
    ELSE CollectColors(colors, i + 1)

(* the days parameter taken whenever it is a number *)
SvgDaysUnchecked(q) ==
    IF q.days # EmptyText /\ Atoi(q.days).ok THEN Atoi(q.days).n ELSE DefaultDays

(* lines 62-66 *)
SvgDays(q) ==
    IF q.days # EmptyText /\ Atoi(q.days).ok /\ Atoi(q.days).n > 0
       /\ Atoi(q.days).n <= DefaultDays
    THEN Atoi(q.days).n ELSE DefaultDays

(* lines 68-72 *)
SvgCellSize(q) ==
    IF q.cell_size # EmptyText /\ Atoi(q.cell_size).ok
       /\ Atoi(q.cell_size).n >= CellSizeLow /\ Atoi(q.cell_size).n <= CellSizeHigh
    THEN Atoi(q.cell_size).n ELSE DefaultCellSize

(* lines 74-78 *)
SvgRadius(q) ==
    IF q.radius # EmptyText /\ Atoi(q.radius).ok
       /\ Atoi(q.radius).n >= 0 /\ Atoi(q.radius).n <= RadiusHigh
    THEN Atoi(q.radius).n ELSE DefaultCellRadius

(* lines 51-99: services.SVGOptions as it is handed on *)
SVGOptions(q) ==
    LET customColors == CollectColors(q.colors, 1)
    IN [Theme |-> IF PaletteTaken(customColors) THEN "custom"
                  ELSE IF q.theme = "" THEN "github" ELSE q.theme,
        Days |-> SvgDays(q),
        CellSize |-> SvgCellSize(q),
        CellRadius |-> SvgRadius(q),
        HideLegend |-> Flag(q.hide_legend),
        HideTotal |-> Flag(q.hide_total),
        HideLabels |-> Flag(q.hide_labels),
        CustomTitle |-> q.title,
        BgColor |-> IF q.bg_color # <<>> THEN parseHexColor(q.bg_color) ELSE <<>>,
        TextColor |-> IF q.text_color # <<>> THEN parseHexColor(q.text_color) ELSE <<>>,
        CustomColors |-> IF PaletteTaken(customColors) THEN customColors ELSE <<>>]

(* the handler: 400 for an empty username, otherwise the options go to     *)
(* GenerateSVGWithOptions                                                  *)
GetHeatmapSVG(username, q) ==
    /\ ~svg.handed
    /\ svg' = IF username = ""
              THEN [handed |-> FALSE, status |-> 400]
              ELSE [handed |-> TRUE, username |-> username, query |-> q,
                    opts |-> SVGOptions(q)]
    /\ UNCHANGED <<dbVars, now, procs, sweep, nSyncs, calls, lastCreated, read, resp,
                   level, call, cleaned, grid>>

(* query strings: every combination of the numeric parameters, every       *)
(* combination of theme and colours, and the remaining parameters          *)
NumberTexts ==
    {EmptyText, Letters, OutOfRange} \cup
    {Digits(n) : n \in {-1, 0, 1, CellSizeLow - 1, CellSizeLow, RadiusHigh, RadiusHigh + 1,
                        CellSizeHigh, CellSizeHigh + 1, DefaultDays, DefaultDays + 1}}

ColorTexts == {<<>>, <<" ">>, <<"f">>, <<"#", "f">>, <<" ", "0", " ">>}

NoColors == [i \in 1..PaletteSize |-> <<>>]

PlainQuery ==
    [theme |-> "", days |-> EmptyText, cell_size |-> EmptyText, radius |-> EmptyText,
     hide_legend |-> "", hide_total |-> "", hide_labels |-> "", title |-> "",
     bg_color |-> <<>>, text_color |-> <<>>, colors |-> NoColors]

SvgQueries ==
    {[PlainQuery EXCEPT !.days = d, !.cell_size = cs, !.radius = r] :
        d \in NumberTexts, cs \in NumberTexts, r \in NumberTexts}
    \cup {[PlainQuery EXCEPT !.theme = t, !.colors = c] :
            t \in {"", "dark"}, c \in [1..PaletteSize -> ColorTexts]}
    \cup {[PlainQuery EXCEPT !.hide_legend = f, !.hide_total = g, !.hide_labels = f,
                             !.title = t, !.bg_color = c, !.text_color = c] :
            f \in {"", "true", "yes"}, g \in {"", "1"}, t \in {"", "Pulls"},
            c \in ColorTexts}

NextSvg == \E username \in {"", "alice"}, q \in SvgQueries : GetHeatmapSVG(username, q)

SpecSvg == Init /\ [][NextSvg]_vars

(* C34: the options handed to the renderer have a window of 1 to 365 days, *)
(* a cell size of 5 to 20 and a corner radius of 0 to 10, whatever the     *)
(* query parameters are                                                    *)
C34_OptionsWithinBounds ==
    svg.handed =>
        /\ svg.opts.Days \in 1..365
        /\ svg.opts.CellSize \in 5..20
        /\ svg.opts.CellRadius \in 0..10

(* a request with days=366, a cell size of 4 and a radius of 11 was handed *)
(* on with the defaults                                                    *)
C34_Witness ==
    /\ svg.handed
    /\ svg.query.days = Digits(DefaultDays + 1)
    /\ svg.query.cell_size = Digits(CellSizeLow - 1)
    /\ svg.query.radius = Digits(RadiusHigh + 1)
    /\ svg.opts.Days = DefaultDays
    /\ svg.opts.CellSize = DefaultCellSize
    /\ svg.opts.CellRadius = DefaultCellRadius

(* all five colour parameters are supplied non-empty *)
AllColorsSupplied(q) == \A i \in 1..PaletteSize : q.colors[i] # <<>>

(* C35: the custom palette is set and the theme is "custom" exactly when   *)
(* all five of color0..color4 are supplied non-empty; otherwise the        *)
(* palette is empty and the theme is the requested one                     *)
C35_PaletteNeedsAllFive ==
    svg.handed =>
        IF AllColorsSupplied(svg.query)
        THEN /\ Len(svg.opts.CustomColors) = 5
             /\ svg.opts.Theme = "custom"
        ELSE /\ svg.opts.CustomColors = <<>>
             /\ svg.opts.Theme = (IF svg.query.theme = "" THEN "github" ELSE svg.query.theme)

(* four colours and a theme were supplied: the theme stays, no palette *)
C35_Witness ==
    /\ svg.handed
    /\ svg.query.theme = "dark"
    /\ Cardinality({i \in 1..PaletteSize : svg.query.colors[i] # <<>>}) = 4
    /\ svg.opts.Theme = "dark"
    /\ svg.opts.CustomColors = <<>>

-----------------------------------------------------------------------------
(* HeatmapGrid (frontend/components/shared/heatmap-grid.tsx): the cells    *)
(* the component renders for a series                                      *)

MaxGridLen == 8
DaysPerWeek == 7

(* an entry of the series; the date is the entry's position in the series *)
HeatmapData(date, lvl) == [date |-> date, count |-> lvl, level |-> lvl]

(* data[index] past the end of the array *)
Undefined == [date |-> -1, count |-> 0, level |-> 0]

(* Math.floor in place of Math.ceil *)
NumColsFloor(data) == Len(data) \div DaysPerWeek

(* line 38: Math.ceil(data.length / 7), the least integer not below the    *)
(* quotient                                                                *)
NumCols(data) ==
    CHOOSE k \in 0..Len(data) :
        /\ k * DaysPerWeek >= Len(data)
        /\ \A j \in 0..Len(data) : j * DaysPerWeek >= Len(data) => k <= j

(* lines 40-43: array indices start at 0 *)
getCellData(data, row, col) ==
    LET index == col * DaysPerWeek + row
    IN IF index + 1 \in DOMAIN data THEN data[index + 1] ELSE Undefined

(* lines 37, 82-111: one flex row per entry of rows, one cell per column;  *)
(* a cell without a day is an empty div                                    *)
Render(data) ==
    [rendered |-> TRUE,
     data |-> data,
     numCols |-> NumCols(data),
     cells |-> [row \in 0..6 |->
                  [col \in 0..(NumCols(data) - 1) |-> getCellData(data, row, col)]]]

GridSeries ==
    UNION {{[i \in 1..n |-> HeatmapData(i - 1, l[i])] : l \in [1..n -> 0..1]} :
              n \in 0..MaxGridLen}

HeatmapGrid(data) ==
    /\ ~grid.rendered
    /\ grid' = Render(data)
    /\ UNCHANGED <<dbVars, now, procs, sweep, nSyncs, calls, lastCreated, read, resp,
                   level, call, cleaned, svg>>

NextGrid == \E data \in GridSeries : HeatmapGrid(data)

SpecGrid == Init /\ [][NextGrid]_vars

(* the cells of the rendering that show the entry *)
CellsShowing(entry) ==
    {rc \in (0..6) \X (0..(grid.numCols - 1)) : grid.cells[rc[1]][rc[2]] = entry}

(* C36: for a series of n entries the grid has ceil(n/7) columns, entry i  *)
(* is shown at row i mod 7 of column i div 7 and in no other cell, and     *)
(* every cell whose index col*7+row is n or more is empty                  *)
C36_ColumnMajorLayout ==
    grid.rendered =>
        LET n == Len(grid.data)
        IN /\ grid.numCols * 7 >= n
           /\ (grid.numCols - 1) * 7 < n
           /\ \A i \in 0..(n - 1) :
                 CellsShowing(grid.data[i + 1]) = {<<i % 7, i \div 7>>}
           /\ \A row \in 0..6, col \in 0..(grid.numCols - 1) :
                 col * 7 + row >= n => grid.cells[row][col] = Undefined

(* a series of eight entries: the eighth is alone in the second column *)
C36_Witness ==
    /\ grid.rendered
    /\ Len(grid.data) = 8
    /\ grid.numCols = 2
    /\ grid.cells[0][1] = grid.data[8]
    /\ grid.cells[1][1] = Undefined

-----------------------------------------------------------------------------
(* C37: the persisted sync-in-progress flag of an account is true while    *)
(* an execution of SyncActivity for it is between its start write and its  *)
(* final status write: the end of one execution does not clear the flag    *)
(* under another that is still running                                     *)
C37_FlagCoversRunningSyncs ==
    \A p \in Procs :
        Running(p) => \A a \in accounts : a.ID = procs[p].target => a.SyncInProgress

-----------------------------------------------------------------------------
(* SpecMidnight: one GetActivityJSON request made in the last hour of a    *)
(* UTC day or in the first hour of the next; the clock may have moved on   *)
(* by an hour when the loop of GetActivitySummary reads it again           *)

InitMidnight ==
    /\ accounts = {DockerAccount(id, id, IF id = 1 THEN "alice" ELSE "bob", "enc_ok") :
                      id \in 1..2}
    /\ events \in Stores
    /\ nextAccountID = 3
    /\ nextEventID = Cardinality(events) + 1
    /\ now \in {Midnight(Today) - 1, Midnight(Today)}
    /\ procs = [p \in Procs |-> IdleProc]
    /\ sweep = SweepIdle
    /\ nSyncs = 0
    /\ calls = <<>>
    /\ lastCreated = NoCreated
    /\ read = NoRead
    /\ resp = NoResponse
    /\ level = NoLevel
    /\ call = NoCall
    /\ cleaned = NoCleanup
    /\ svg = NoSvg
    /\ grid = NoGrid

(* GetActivityJSON while the clock advances by elapsed hours between the   *)
(* reading of line 205 and the reading of line 226                         *)
GetActivityJSONDuring(username, d, elapsed) ==
    /\ now' = now + elapsed
    /\ IF username = ""
       THEN /\ resp' = Response(400, username, 0, Totals(0, 0, 0, 0), <<>>)
            /\ read' = NoRead
       ELSE \E r \in {GetActivitySummaryAt(username, ParseDays(d), now, now + elapsed)} :
               Reply(username, ParseDays(d), r)
    /\ UNCHANGED <<dbVars, procs, sweep, nSyncs, calls, lastCreated, level, call,
                   cleaned, svg, grid>>

NextMidnightRequest ==
    /\ resp = NoResponse
    /\ \E username \in RequestNames, d \in DaysQueries, elapsed \in 0..1 :
          GetActivityJSONDuring(username, d, elapsed)

SpecMidnight == InitMidnight /\ [][NextMidnightRequest]_vars

(* C38: a series returned for a window of days days has days + 1 entries,  *)
(* from the UTC day that lies days days before today to today              *)
C38_SeriesHasDaysPlusOne ==
    resp.status = 200 =>
        /\ Len(resp.activity) = resp.days + 1
        /\ resp.activity[1].Date = FormatDate(now) - resp.days
        /\ resp.activity[Len(resp.activity)].Date = FormatDate(now)

-----------------------------------------------------------------------------
(* C39: in a returned series an entry has a level of 1 or more exactly     *)
(* when its total count is positive, and when some entry has a positive    *)
(* count the entries with the greatest count of the series have level 4    *)
C39_LevelsFollowCounts ==
    resp.status = 200 =>
        LET s == resp.activity
        IN /\ \A i \in 1..Len(s) : (s[i].Level >= 1) <=> (s[i].TotalCount > 0)
           /\ \A i \in 1..Len(s) :
                 (s[i].TotalCount > 0 /\ \A j \in 1..Len(s) : s[j].TotalCount <= s[i].TotalCount)
                    => s[i].Level = 4

====
